---- MODULE Spec2Model ----
(***************************************************************************)
(* The authentication core of bahn-cli: the OIDC Authorization-Code + PKCE *)
(* login (manual paste, browser-tab polling with paste fallback, local     *)
(* bridge server), the silent refresh, the token exchange, the claims      *)
(* parser and the token file.                                              *)
(*                                                                         *)
(* A string the code parses is a sequence of tokens: an atom is a run of   *)
(* characters without a separator, and "#", "?", "&", "=", ".", " " are    *)
(* the separators the code looks for.  The empty string is <<>>.           *)
(***************************************************************************)
EXTENDS Integers, Sequences, FiniteSets, TLC

\* ------------------------------------------------------------------ bounds

\* The most parameters a callback fragment or query carries.
MaxParams == 3
\* The most /exchange requests the bridge listener sees in one attempt.
MaxRequests == 2
\* The last second the wall clock reaches.
MaxClock == 34

\* --------------------------------------------------------------- constants

clientID == "kf_web"
scopes == "openid vendo"
keycloakBaseURL == "https://accounts.bahn.de/auth/realms/db/protocol/openid-connect"
realRedirectURI == "https://www.bahn.de/.resources/bahn-common-light/webresources/assets/html/auth.v2.html"
StatusOK == 200
StatusFound == 302
StatusSeeOther == 303

\* ----------------------------------------------------------------- strings

Str(a) == <<a>>

\* strings.Index for a one-token needle, 1-based; 0 when absent.
IndexOf(s, t) ==
  IF \E i \in 1..Len(s) : s[i] = t
  THEN CHOOSE i \in 1..Len(s) : s[i] = t /\ \A j \in 1..(i - 1) : s[j] # t
  ELSE 0

\* strings.Cut
Cut(s, sep) ==
  LET i == IndexOf(s, sep)
  IN  IF i = 0
      THEN [before |-> s, after |-> <<>>, found |-> FALSE]
      ELSE [before |-> SubSeq(s, 1, i - 1), after |-> SubSeq(s, i + 1, Len(s)), found |-> TRUE]

\* strings.Contains(s, sub)
Contains(s, sub) ==
  \E i \in 0..(Len(s) - Len(sub)) : SubSeq(s, i + 1, i + Len(sub)) = sub

\* The text of a sequence of tokens, as one string.
RECURSIVE Text(_)
Text(s) == IF s = <<>> THEN "" ELSE Head(s) \o Text(Tail(s))

\* strings.Contains on texts
TextContains(text, sub) ==
  \E i \in 0..(Len(text) - Len(sub)) : SubSeq(text, i + 1, i + Len(sub)) = sub

\* strings.TrimSpace
RECURSIVE TrimLeft(_)
TrimLeft(s) == IF s # <<>> /\ Head(s) = " " THEN TrimLeft(Tail(s)) ELSE s

RECURSIVE TrimRight(_)
TrimRight(s) ==
  IF s # <<>> /\ s[Len(s)] = " " THEN TrimRight(SubSeq(s, 1, Len(s) - 1)) ELSE s

TrimSpace(s) == TrimRight(TrimLeft(s))

\* strings.Split(s, sep): the pieces between the separators; Split("", sep) is [""].
RECURSIVE Split(_, _)
Split(s, sep) ==
  LET c == Cut(s, sep)
  IN  IF c.found THEN <<c.before>> \o Split(c.after, sep) ELSE <<s>>

\* -------------------------------------------------------------- url.Values

\* The atom that stands for an invalid percent escape.
BadEscapeAtom == "%zz"

\* url.QueryUnescape fails on an invalid percent escape.
UnescapeFails(s) == \E i \in 1..Len(s) : s[i] = BadEscapeAtom

\* Atoms that stand for text with a character the encoders rewrite: a space
\* written "+", the same space written "%20" and decoded, and the percent sign
\* of the invalid escape written "%25".
PlusAtom == "a+b"
SpaceAtom == "a b"
EscapedSpaceAtom == "a%20b"
EscapedPercentAtom == "%25zz"
NoCodeDescription == "No+authorization+code+in+response"

\* url.QueryUnescape on text that unescapes: "+" and "%20" become a space,
\* "%25" a percent sign.
QueryUnescape(s) ==
  [i \in 1..Len(s) |->
     CASE s[i] \in {PlusAtom, EscapedSpaceAtom} -> SpaceAtom
       [] s[i] = EscapedPercentAtom -> BadEscapeAtom
       [] s[i] = NoCodeDescription -> "No authorization code in response"
       [] OTHER -> s[i]]

\* url.ParseQuery: the key/value pairs in order, and whether any piece failed
\* to unescape (the pairs that parse are kept, the error is reported).
RECURSIVE ParseQuery(_)
ParseQuery(query) ==
  IF query = <<>>
  THEN [m |-> <<>>, err |-> FALSE]
  ELSE LET c == Cut(query, "&")
           rest == ParseQuery(c.after)
           kv == Cut(c.before, "=")
       IN  IF c.before = <<>>
           THEN rest
           ELSE IF UnescapeFails(kv.before) \/ UnescapeFails(kv.after)
           THEN [m |-> rest.m, err |-> TRUE]
           ELSE [m |-> <<[k |-> QueryUnescape(kv.before), v |-> QueryUnescape(kv.after)]>> \o rest.m,
                 err |-> rest.err]

\* url.Values.Get: the first value of the key, "" when the key is absent.
Get(m, key) ==
  IF \E i \in 1..Len(m) : m[i].k = Str(key)
  THEN m[CHOOSE i \in 1..Len(m) :
           m[i].k = Str(key) /\ \A j \in 1..(i - 1) : m[j].k # Str(key)].v
  ELSE <<>>

\* ------------------------------------------------------------------ errors

\* An error value: the message's template and the values formatted into it.
\* w is the template of the error wrapped with %w, "" when none is.
Err(kind, a, b, n) == [kind |-> kind, a |-> a, b |-> b, n |-> n, w |-> ""]
NoErr == Err("nil", <<>>, <<>>, 0)
IsErr(e) == e.kind # "nil"
\* fmt.Errorf(kind + ": %w", inner)
Wrap(kind, inner) == [kind |-> kind, a |-> inner.a, b |-> inner.b, n |-> inner.n, w |-> inner.kind]

\* fmt.Sprintf of an error's template with its values.
Sprintf(err) ==
  CASE err.kind = "token exchange failed with status %d: %s" ->
         "token exchange failed with status " \o ToString(err.n) \o ": " \o Text(err.a)
    [] err.kind = "token exchange failed: %s - %s" ->
         "token exchange failed: " \o Text(err.a) \o " - " \o Text(err.b)
    [] err.kind = "auth error" ->
         "auth error: " \o Text(err.a) \o " (" \o Text(err.b) \o ")"
    [] OTHER -> err.kind

\* err.Error(): the text of the error, after the prefix of the error that wraps
\* it; an ExitError has the text of the error it wraps.
Error(err) ==
  IF err.w = "" THEN Sprintf(err)
  ELSE (IF err.kind = "ExitError" THEN "" ELSE err.kind \o ": ")
       \o Sprintf([err EXCEPT !.kind = err.w, !.w = ""])

\* ------------------------------------------------------- fragment parsing

\* An extractFragmentParams that takes a text without "#" to have no fragment.
extractFragmentParamsHashOnly(rawURL) ==
  LET idx == IndexOf(rawURL, "#")
      fragment == IF idx > 0 THEN SubSeq(rawURL, idx + 1, Len(rawURL)) ELSE <<>>
      params == ParseQuery(fragment)
      errParam == Get(params.m, "error")
      codeParam == Get(params.m, "code")
  IN  IF params.err
      THEN [code |-> <<>>, state |-> <<>>, err |-> Err("invalid URL fragment", <<>>, <<>>, 0)]
      ELSE IF errParam # <<>>
      THEN [code |-> <<>>, state |-> <<>>,
            err |-> Err("auth error", errParam, Get(params.m, "error_description"), 0)]
      ELSE IF codeParam = <<>>
      THEN [code |-> <<>>, state |-> <<>>, err |-> Err("no auth code found in URL", <<>>, <<>>, 0)]
      ELSE [code |-> codeParam, state |-> Get(params.m, "state"), err |-> NoErr]

\* extractFragmentParams: (code, state, err)
extractFragmentParams(rawURL) ==
  LET idx == IndexOf(rawURL, "#")
      fragment == IF idx > 0 THEN SubSeq(rawURL, idx + 1, Len(rawURL)) ELSE rawURL
      params == ParseQuery(fragment)
      errParam == Get(params.m, "error")
      codeParam == Get(params.m, "code")
  IN  IF params.err
      THEN [code |-> <<>>, state |-> <<>>, err |-> Err("invalid URL fragment", <<>>, <<>>, 0)]
      ELSE IF errParam # <<>>
      THEN [code |-> <<>>, state |-> <<>>,
            err |-> Err("auth error", errParam, Get(params.m, "error_description"), 0)]
      ELSE IF codeParam = <<>>
      THEN [code |-> <<>>, state |-> <<>>, err |-> Err("no auth code found in URL", <<>>, <<>>, 0)]
      ELSE [code |-> codeParam, state |-> Get(params.m, "state"), err |-> NoErr]

\* ------------------------------------------------------------------- PKCE

\* base64url(SHA-256(verifier)), kept symbolic: the hash is injective here.
S256(verifier) == <<"S256", verifier>>

\* The letters and digits both base64 alphabets begin with.
AlphaNum ==
  <<"A", "B", "C", "D", "E", "F", "G", "H", "I", "J", "K", "L", "M",
    "N", "O", "P", "Q", "R", "S", "T", "U", "V", "W", "X", "Y", "Z",
    "a", "b", "c", "d", "e", "f", "g", "h", "i", "j", "k", "l", "m",
    "n", "o", "p", "q", "r", "s", "t", "u", "v", "w", "x", "y", "z",
    "0", "1", "2", "3", "4", "5", "6", "7", "8", "9">>

\* base64.RawStdEncoding: the standard alphabet, without padding.
RawStdEncoding == AlphaNum \o <<"+", "/">>

\* base64.RawURLEncoding: the URL and filename safe alphabet, without padding.
RawURLEncoding == AlphaNum \o <<"-", "_">>

\* Encoding.EncodeToString without padding: three bytes give four characters,
\* a rest of one byte two, a rest of two bytes three.
RECURSIVE EncodeToString(_, _)
EncodeToString(enc, src) ==
  IF src = <<>> THEN ""
  ELSE IF Len(src) = 1
  THEN LET val == src[1] * 16
       IN  enc[(val \div 64) + 1] \o enc[(val % 64) + 1]
  ELSE IF Len(src) = 2
  THEN LET val == (src[1] * 256 + src[2]) * 4
       IN  enc[(val \div 4096) + 1] \o enc[((val \div 64) % 64) + 1] \o enc[(val % 64) + 1]
  ELSE LET val == src[1] * 65536 + src[2] * 256 + src[3]
       IN  enc[(val \div 262144) + 1] \o enc[((val \div 4096) % 64) + 1]
             \o enc[((val \div 64) % 64) + 1] \o enc[(val % 64) + 1]
             \o EncodeToString(enc, SubSeq(src, 4, Len(src)))

\* The bytes of the buffer generatePKCE fills (96 in the source).
VerifierBytes == 3

\* The byte values rand.Read is followed through.
RandBytes == {0, 190, 239, 251, 255}

\* Every buffer over those bytes.
AllBuffers == [1..VerifierBytes -> RandBytes]

\* What crypto/rand yields for the verifier's buffer in a run: all bits set,
\* and the bytes fb ef be over and over.
RandBuffers ==
  { [i \in 1..VerifierBytes |-> 255],
    [i \in 1..VerifierBytes |-> <<251, 239, 190>>[((i - 1) % 3) + 1]] }

\* What crypto/rand yields for the 32-character state.
States == {"s1", "s2"}

\* generatePKCE: (verifier, challenge, err); randOK is whether rand.Read
\* succeeded, buf what it filled the buffer with.
generatePKCE(randOK, buf) ==
  IF ~randOK
  THEN [verifier |-> "", challenge |-> <<>>, err |-> Err("rand.Read", <<>>, <<>>, 0)]
  ELSE LET verifier == EncodeToString(RawURLEncoding, buf)
       IN  [verifier |-> verifier, challenge |-> S256(verifier), err |-> NoErr]

\* The verifiers generatePKCE returns in a run.
Verifiers == { generatePKCE(TRUE, buf).verifier : buf \in RandBuffers }

\* What randomString returns when rand.Read failed: the encoding of the
\* buffer as make left it, all zero bytes.
ZeroState == "AAAAAAAAAAAAAAAAAAAAAAAAAAAAAAAA"

\* randomString: the error of rand.Read is dropped and the buffer encoded as
\* it is; randOK is whether rand.Read succeeded, s what it yielded.
randomString(randOK, s) == IF randOK THEN s ELSE ZeroState

\* What state := randomString(32) may be, over what rand.Read does.
StateDraws == { randomString(ok, s) : ok \in BOOLEAN, s \in States }

\* --------------------------------------------------------------- auth URL

\* The keys of url.Values literal of buildAuthURL in the order the source
\* lists them, and in byte order, the order sort.Strings gives them.
LiteralOrder ==
  <<"client_id", "redirect_uri", "response_type", "response_mode", "scope", "state",
    "code_challenge", "code_challenge_method">>

ByteOrder ==
  <<"client_id", "code_challenge", "code_challenge_method", "redirect_uri", "response_mode",
    "response_type", "scope", "state">>

\* k sorts before l.
StringLess(k, l) ==
  \E i \in 1..Len(ByteOrder), j \in 1..Len(ByteOrder) :
    ByteOrder[i] = k /\ ByteOrder[j] = l /\ i < j

\* sort.Strings, by insertion.
RECURSIVE InsertString(_, _)
InsertString(sorted, k) ==
  IF sorted = <<>> THEN <<k>>
  ELSE IF StringLess(k, Head(sorted)) THEN <<k>> \o sorted
  ELSE <<Head(sorted)>> \o InsertString(Tail(sorted), k)

RECURSIVE SortStrings(_)
SortStrings(keys) ==
  IF keys = <<>> THEN <<>>
  ELSE InsertString(SortStrings(SubSeq(keys, 1, Len(keys) - 1)), keys[Len(keys)])

\* The orders in which ranging over the map may yield its keys: Go leaves the
\* order open; here the literal's order turned around at every position, and
\* each of those backwards.
RECURSIVE Reverse(_)
Reverse(s) == IF s = <<>> THEN <<>> ELSE Append(Reverse(Tail(s)), Head(s))

MapOrders ==
  LET turned == { SubSeq(LiteralOrder, n + 1, Len(LiteralOrder)) \o SubSeq(LiteralOrder, 1, n) :
                  n \in 0..(Len(LiteralOrder) - 1) }
  IN  turned \cup { Reverse(o) : o \in turned }

\* An Encode that writes the pairs in the order the map yields them.
EncodeMapOrder(v, iter) == [i \in 1..Len(iter) |-> <<iter[i], v[iter[i]]>>]

\* url.Values.Encode: the keys collected in the map's order iter, sorted, and
\* the pairs written in that order (the values stand for their escaped text).
Encode(v, iter) ==
  LET keys == SortStrings(iter)
  IN  [i \in 1..Len(keys) |-> <<keys[i], v[keys[i]]>>]

\* buildAuthURL: the endpoint and the parameters as url.Values.Encode writes
\* them.
buildAuthURL(redirectURI, state, challenge) ==
  [endpoint |-> "auth",
   query |-> Encode([client_id |-> Str(clientID),
                     redirect_uri |-> Str(redirectURI),
                     response_type |-> Str("code"),
                     response_mode |-> Str("fragment"),
                     scope |-> Str(scopes),
                     state |-> Str(state),
                     code_challenge |-> challenge,
                     code_challenge_method |-> Str("S256")],
                    LiteralOrder)]

\* authURL += "&prompt=none"
WithPromptNone(authURL) ==
  [authURL EXCEPT !.query = Append(@, <<"prompt", Str("none")>>)]

\* ------------------------------------------------------------ claims parser

\* time.Unix(sec, nsec)
TimeUnix(sec, nsec) == [sec |-> sec, nsec |-> nsec]

\* The payload segments the token endpoint or the user may supply: the length of
\* the unpadded base64url text modulo 4, whether its characters are base64url,
\* whether the decoded bytes are a JSON object of the claims' types, the claims.
PayloadAtoms == {"pA", "pB", "pNoExp", "pLen1", "pNotB64", "pNotJSON"}

B64LenMod4(atom) ==
  CASE atom = "pA" -> 2
    [] atom = "pB" -> 3
    [] atom = "pNoExp" -> 0
    [] atom = "pLen1" -> 1
    [] atom = "pNotB64" -> 0
    [] OTHER -> 0

B64Alphabet(atom) == atom \in {"pA", "pB", "pNoExp", "pLen1", "pNotJSON"}

\* json.Unmarshal(data, &claims): whether the bytes decode, and the claims read
\* (a claim the object lacks keeps its zero value).
JSONClaims(atom) ==
  CASE atom = "pA" ->
         [ok |-> TRUE, Exp |-> 1, Sub |-> "sub1", Kundenkontoid |-> "k1", PreferredUsername |-> "u1"]
    [] atom = "pB" ->
         [ok |-> TRUE, Exp |-> 33, Sub |-> "sub2", Kundenkontoid |-> "k2", PreferredUsername |-> "u2"]
    [] atom = "pNoExp" ->
         [ok |-> TRUE, Exp |-> 0, Sub |-> "sub1", Kundenkontoid |-> "", PreferredUsername |-> ""]
    [] OTHER ->
         [ok |-> FALSE, Exp |-> 0, Sub |-> "", Kundenkontoid |-> "", PreferredUsername |-> ""]

\* The switch on len(payload) % 4 that restores the padding.
AddPadding(payload) ==
  IF payload = <<>> THEN payload
  ELSE CASE B64LenMod4(payload[1]) = 2 -> payload \o <<"=", "=">>
         [] B64LenMod4(payload[1]) = 3 -> payload \o <<"=">>
         [] OTHER -> payload

\* base64.URLEncoding.DecodeString: the padded text must be a whole number of
\* 4-character groups of the alphabet.
Base64Decodes(padded) ==
  \/ padded = <<>>
  \/ /\ padded[1] \in PayloadAtoms
     /\ B64Alphabet(padded[1])
     /\ \A i \in 2..Len(padded) : padded[i] = "="
     /\ (B64LenMod4(padded[1]) + (Len(padded) - 1)) % 4 = 0

\* A ParseJWT that asks for three parts at least.
ParseJWTAtLeastThree(token) ==
  LET parts == Split(token, ".")
  IN  IF Len(parts) < 3
      THEN [claims |-> <<>>, err |-> Err("invalid JWT: expected 3 parts", <<>>, <<>>, 0)]
      ELSE LET payload == AddPadding(parts[2])
           IN  IF ~Base64Decodes(payload)
               THEN [claims |-> <<>>, err |-> Err("invalid JWT payload", <<>>, <<>>, 0)]
               ELSE IF payload = <<>> \/ ~JSONClaims(payload[1]).ok
               THEN [claims |-> <<>>, err |-> Err("invalid JWT claims", <<>>, <<>>, 0)]
               ELSE [claims |-> <<JSONClaims(payload[1])>>, err |-> NoErr]

\* ParseJWT: (claims, err); claims is <<>> for nil.
ParseJWT(token) ==
  LET parts == Split(token, ".")
  IN  IF Len(parts) # 3
      THEN [claims |-> <<>>, err |-> Err("invalid JWT: expected 3 parts", <<>>, <<>>, 0)]
      ELSE LET payload == AddPadding(parts[2])
           IN  IF ~Base64Decodes(payload)
               THEN [claims |-> <<>>, err |-> Err("invalid JWT payload", <<>>, <<>>, 0)]
               ELSE IF payload = <<>> \/ ~JSONClaims(payload[1]).ok
               THEN [claims |-> <<>>, err |-> Err("invalid JWT claims", <<>>, <<>>, 0)]
               ELSE [claims |-> <<JSONClaims(payload[1])>>, err |-> NoErr]

\* A TokenSetFromJWT that takes the expiry from a fixed lifetime, not from exp.
TokenSetFromJWTFixedLifetime(accessToken) ==
  LET r == ParseJWT(accessToken)
  IN  IF IsErr(r.err)
      THEN [tokens |-> <<>>, err |-> r.err]
      ELSE [tokens |-> << [AccessToken |-> accessToken,
                           IDToken |-> "",
                           ExpiresAt |-> TimeUnix(300, 0),
                           Kundenkontoid |-> r.claims[1].Kundenkontoid,
                           Sub |-> r.claims[1].Sub,
                           Username |-> r.claims[1].PreferredUsername] >>,
            err |-> NoErr]

\* TokenSetFromJWT: (tokens, err); tokens is <<>> for nil.
TokenSetFromJWT(accessToken) ==
  LET r == ParseJWT(accessToken)
  IN  IF IsErr(r.err)
      THEN [tokens |-> <<>>, err |-> r.err]
      ELSE [tokens |-> << [AccessToken |-> accessToken,
                           IDToken |-> "",
                           ExpiresAt |-> TimeUnix(r.claims[1].Exp, 0),
                           Kundenkontoid |-> r.claims[1].Kundenkontoid,
                           Sub |-> r.claims[1].Sub,
                           Username |-> r.claims[1].PreferredUsername] >>,
            err |-> NoErr]

\* ----------------------------------------------------------- expiry helpers

\* The margin of NeedsRefresh, in seconds.
RefreshMargin == 30

\* time.Time.After
After(t, u) == t.sec > u.sec \/ (t.sec = u.sec /\ t.nsec > u.nsec)

\* time.Time.Add of a whole number of seconds
AddSeconds(t, d) == TimeUnix(t.sec + d, t.nsec)

\* An IsExpired that is true from the expiry instant on.
IsExpiredNotBefore(t, clock) == ~After(t.ExpiresAt, clock)

\* TokenSet.IsExpired, with time.Now() = clock
IsExpired(t, clock) == After(clock, t.ExpiresAt)

\* A NeedsRefresh whose margin lies after the expiry.
NeedsRefreshAfterExpiry(t, clock) == After(clock, AddSeconds(t.ExpiresAt, RefreshMargin))

\* A NeedsRefresh that starts one second late.
NeedsRefreshLate(t, clock) == After(clock, AddSeconds(t.ExpiresAt, 1 - RefreshMargin))

\* TokenSet.NeedsRefresh, with time.Now() = clock
NeedsRefresh(t, clock) == After(clock, AddSeconds(t.ExpiresAt, 0 - RefreshMargin))

\* ----------------------------------------------------------- token exchange

\* A form that always names the registered redirect target.
TokenRequestRealRedirect(authCode, verifier, redirectURI) ==
  [grant_type |-> "authorization_code", client_id |-> clientID,
   redirect_uri |-> realRedirectURI, code |-> authCode, code_verifier |-> verifier]

\* The form exchangeCode posts to the token endpoint.
TokenRequest(authCode, verifier, redirectURI) ==
  [grant_type |-> "authorization_code", client_id |-> clientID,
   redirect_uri |-> redirectURI, code |-> authCode, code_verifier |-> verifier]

\* An exchangeCode that keeps the access token as it comes and takes the
\* expiry from expires_in.
exchangeCodeExpiresIn(resp) ==
  IF resp.kind = "neterr"
  THEN [tokens |-> <<>>, err |-> Err("token exchange failed: %w", <<>>, <<>>, 0)]
  ELSE IF resp.kind = "readerr"
  THEN [tokens |-> <<>>, err |-> Err("reading token response", <<>>, <<>>, 0)]
  ELSE IF resp.status # StatusOK
  THEN IF resp.body.json /\ resp.body.error # <<>>
       THEN [tokens |-> <<>>,
             err |-> Err("token exchange failed: %s - %s", resp.body.error,
                         resp.body.error_description, 0)]
       ELSE [tokens |-> <<>>,
             err |-> Err("token exchange failed with status %d: %s", Str(resp.body.raw),
                         <<>>, resp.status)]
  ELSE IF ~resp.body.json
  THEN [tokens |-> <<>>, err |-> Err("parsing token response", <<>>, <<>>, 0)]
  ELSE [tokens |-> << [AccessToken |-> resp.body.access_token,
                       IDToken |-> resp.body.id_token,
                       ExpiresAt |-> TimeUnix(resp.body.expires_in, 0),
                       Kundenkontoid |-> "", Sub |-> "", Username |-> ""] >>,
        err |-> NoErr]

\* An exchangeCode that does not try to decode a provider error.
exchangeCodeNoDecode(resp) ==
  IF resp.kind = "neterr"
  THEN [tokens |-> <<>>, err |-> Err("token exchange failed: %w", <<>>, <<>>, 0)]
  ELSE IF resp.kind = "readerr"
  THEN [tokens |-> <<>>, err |-> Err("reading token response", <<>>, <<>>, 0)]
  ELSE IF resp.status # StatusOK
  THEN [tokens |-> <<>>,
        err |-> Err("token exchange failed with status %d: %s", Str(resp.body.raw),
                    <<>>, resp.status)]
  ELSE IF ~resp.body.json
  THEN [tokens |-> <<>>, err |-> Err("parsing token response", <<>>, <<>>, 0)]
  ELSE LET t == TokenSetFromJWT(resp.body.access_token)
       IN  IF IsErr(t.err)
           THEN [tokens |-> <<>>, err |-> t.err]
           ELSE [tokens |-> << [t.tokens[1] EXCEPT !.IDToken = resp.body.id_token] >>,
                 err |-> NoErr]

\* exchangeCode after the POST: (tokens, err) from the token endpoint's answer.
\* resp.kind is "neterr" (http.Post failed), "readerr" (the body could not be
\* read) or "http".  The token set has the fields of the TokenSet struct; the
\* refresh_token that internal/auth copies next to the ID token is not kept.
exchangeCode(resp) ==
  IF resp.kind = "neterr"
  THEN [tokens |-> <<>>, err |-> Err("token exchange failed: %w", <<>>, <<>>, 0)]
  ELSE IF resp.kind = "readerr"
  THEN [tokens |-> <<>>, err |-> Err("reading token response", <<>>, <<>>, 0)]
  ELSE IF resp.status # StatusOK
  THEN IF resp.body.json /\ resp.body.error # <<>>
       THEN [tokens |-> <<>>,
             err |-> Err("token exchange failed: %s - %s", resp.body.error,
                         resp.body.error_description, 0)]
       ELSE [tokens |-> <<>>,
             err |-> Err("token exchange failed with status %d: %s", Str(resp.body.raw),
                         <<>>, resp.status)]
  ELSE IF ~resp.body.json
  THEN [tokens |-> <<>>, err |-> Err("parsing token response", <<>>, <<>>, 0)]
  ELSE LET t == TokenSetFromJWT(resp.body.access_token)
       IN  IF IsErr(t.err)
           THEN [tokens |-> <<>>, err |-> t.err]
           ELSE [tokens |-> << [t.tokens[1] EXCEPT !.IDToken = resp.body.id_token] >>,
                 err |-> NoErr]

\* --------------------------------------------------------------- token file

\* The atom that stands for text with a byte that is not valid UTF-8, and the
\* same text with U+FFFD in the byte's place.
InvalidUTF8Atom == "h[0xFF]"
ReplacementAtom == "h[U+FFFD]"

\* encoding/json writes a string coerced to valid UTF-8: every invalid byte
\* becomes U+FFFD.  For one atom, and for a text of several.
ToValidUTF8(a) == IF a = InvalidUTF8Atom THEN ReplacementAtom ELSE a
JSONString(s) == [i \in 1..Len(s) |-> ToValidUTF8(s[i])]

\* A marshaller that writes the expiry to the minute.
MarshalTokenSetToMinute(t) ==
  [accessToken |-> JSONString(t.AccessToken), idToken |-> ToValidUTF8(t.IDToken),
   expiresAt |-> [layout |-> "RFC3339Nano", sec |-> (t.ExpiresAt.sec \div 60) * 60, nsec |-> 0],
   kundenkontoid |-> ToValidUTF8(t.Kundenkontoid), sub |-> ToValidUTF8(t.Sub),
   username |-> ToValidUTF8(t.Username)]

\* json.MarshalIndent of a TokenSet: one JSON object, the strings coerced to
\* valid UTF-8, the expiry as RFC 3339 with its nanoseconds.
MarshalTokenSet(t) ==
  [accessToken |-> JSONString(t.AccessToken), idToken |-> ToValidUTF8(t.IDToken),
   expiresAt |-> [layout |-> "RFC3339Nano", sec |-> t.ExpiresAt.sec, nsec |-> t.ExpiresAt.nsec],
   kundenkontoid |-> ToValidUTF8(t.Kundenkontoid), sub |-> ToValidUTF8(t.Sub),
   username |-> ToValidUTF8(t.Username)]

\* json.Unmarshal(data, &tokens): (tokens, err).  data is the file's bytes:
\* <<>> for none, else the JSON texts written; anything but one whole object
\* fails to decode.  The expiry is parsed back from its text.
UnmarshalTokenSet(data) ==
  IF Len(data) # 1
  THEN [tokens |-> <<>>, err |-> Err("unexpected end of JSON input", <<>>, <<>>, 0)]
  ELSE [tokens |-> << [AccessToken |-> data[1].accessToken,
                       IDToken |-> data[1].idToken,
                       ExpiresAt |-> TimeUnix(data[1].expiresAt.sec, data[1].expiresAt.nsec),
                       Kundenkontoid |-> data[1].kundenkontoid,
                       Sub |-> data[1].sub,
                       Username |-> data[1].username] >>,
        err |-> NoErr]

\* The file modes: what SaveTokens asks for, and a wider one.
OwnerOnly == "0600"
WorldReadable == "0644"

\* A WriteFile that sets the mode it is given on an existing file too.
WriteFileChmod(f, data, perm) == << [data |-> data, mode |-> perm] >>

\* os.WriteFile(path, data, perm), done: the file is created with mode perm, or
\* the one that exists is truncated and written, its mode kept.  f is <<>> when
\* the file is absent.
WriteFile(f, data, perm) ==
  << [data |-> data, mode |-> IF f = <<>> THEN perm ELSE f[1].mode] >>

\* SaveTokens: marshal, then os.WriteFile(path, data, 0o600).
SaveTokens(f, t) == WriteFile(f, <<MarshalTokenSet(t)>>, OwnerOnly)

\* os.ReadFile(path): (data, err)
ReadFile(f) ==
  IF f = <<>>
  THEN [data |-> <<>>, err |-> Err("ErrNotExist", <<>>, <<>>, 0)]
  ELSE [data |-> f[1].data, err |-> NoErr]

\* A LoadTokens that reports the missing file as an error.
LoadTokensStrict(f) ==
  LET r == ReadFile(f)
  IN  IF IsErr(r.err) THEN [tokens |-> <<>>, err |-> r.err]
      ELSE UnmarshalTokenSet(r.data)

\* LoadTokens: (tokens, err); a missing file is (nil, nil).
LoadTokens(f) ==
  LET r == ReadFile(f)
  IN  IF IsErr(r.err)
      THEN IF r.err.kind = "ErrNotExist"
           THEN [tokens |-> <<>>, err |-> NoErr]
           ELSE [tokens |-> <<>>, err |-> r.err]
      ELSE UnmarshalTokenSet(r.data)

\* os.Remove(path): (file, err)
Remove(f) ==
  IF f = <<>>
  THEN [file |-> <<>>, err |-> Err("ErrNotExist", <<>>, <<>>, 0)]
  ELSE [file |-> <<>>, err |-> NoErr]

\* A ClearTokens that returns whatever os.Remove returned.
ClearTokensStrict(f) == Remove(f)

\* ClearTokens: (file, err); a missing file is success.
ClearTokens(f) ==
  LET r == Remove(f)
  IN  IF r.err.kind = "ErrNotExist" THEN [file |-> r.file, err |-> NoErr] ELSE r

\* ------------------------------------------------------------------ inputs

\* The parameters a callback may carry, as text.
Pieces ==
  { <<"code", "=", "c1">>, <<"code", "=">>,
    <<"state", "=", "s1">>, <<"state", "=", "s2">>,
    <<"error", "=", "login_required">>, <<"error", "=", "interaction_required">>,
    <<"error", "=", "access_denied">>, <<"error", "=">>,
    <<"error_description", "=", "d1">>,
    <<"session_state", "=", "s1">>,
    <<BadEscapeAtom, "=", "x">> }

ParamSeqs == UNION { [1..n -> Pieces] : n \in 0..MaxParams }

RECURSIVE JoinAmp(_)
JoinAmp(ps) ==
  IF ps = <<>> THEN <<>>
  ELSE IF Len(ps) = 1 THEN ps[1]
  ELSE ps[1] \o <<"&">> \o JoinAmp(Tail(ps))

\* What precedes the parameters: nothing (a bare fragment), the redirect target
\* and "#", the redirect target with a query of its own and "#", or the redirect
\* target and "?" (the parameters in the query, not in the fragment).
Prefixes ==
  { <<>>,
    <<realRedirectURI, "#">>,
    <<realRedirectURI, "?", "error", "=", "login_required", "#">>,
    <<realRedirectURI, "?">> }

\* The URLs a user pastes, a browser tab shows and a Location header carries.
RawURLs == { pre \o JoinAmp(ps) : pre \in Prefixes, ps \in ParamSeqs }

\* The first code, state and error parameter of a URL's fragment (of the whole
\* text when it has no "#"): what the response carries, whatever the code does
\* with it.
Carried(rawURL) ==
  LET idx == IndexOf(rawURL, "#")
      m == ParseQuery(IF idx > 0 THEN SubSeq(rawURL, idx + 1, Len(rawURL)) ELSE rawURL).m
  IN  [code |-> Get(m, "code"), state |-> Get(m, "state"), error |-> Get(m, "error")]

\* Everything the code reads off one URL text: extractFragmentParams' result,
\* strings.Contains for each state value and for the two provider errors.
URLView(u) ==
  [r |-> extractFragmentParams(u),
   hasState |-> { s \in States : Contains(u, Str(s)) },
   hasLoginRequired |-> Contains(u, <<"error", "=", "login_required">>),
   hasInteractionRequired |-> Contains(u, <<"error", "=", "interaction_required">>),
   empty |-> u = <<>>,
   carried |-> Carried(u)]

URLViews == { URLView(u) : u \in RawURLs }

\* What the scanner reads from stdin: end of input, or one line, trimmed.
StdinLines == RawURLs \cup { <<" ">>, <<" ", "code", "=", "c1", "&", "state", "=", "s1", " ">> }
StdinReads ==
  { [eof |-> TRUE, pastedURL |-> URLView(<<>>)] }
  \cup { [eof |-> FALSE, pastedURL |-> URLView(TrimSpace(l))] : l \in StdinLines }

\* What getBrowserTabURL returns: an error, or the tab's URL.
TabReads ==
  { [err |-> TRUE, tabURL |-> URLView(<<>>)] }
  \cup { [err |-> FALSE, tabURL |-> v] : v \in URLViews }

\* The access tokens a token endpoint or a user may supply.
JWTs ==
  { <<>>, <<"opaque">>, <<"h", ".", "pA">>, <<"h", ".", "pA", ".", "sig", ".", "x">>,
    <<"h", ".", ".", "sig">> }
  \cup { <<"h", ".", p, ".", "sig">> : p \in PayloadAtoms }

\* The arguments a user may give the token command: those, and one whose
\* header segment has a byte that is not valid UTF-8 (a token response is
\* decoded by encoding/json, which leaves no such byte in a string).
ArgJWTs == JWTs \cup { <<InvalidUTF8Atom, ".", "pA", ".", "sig">> }

\* What a token response carries next to the access token: neither an ID
\* token nor a lifetime, or both.
OtherMembers == { [id_token |-> "", expires_in |-> 0], [id_token |-> "id1", expires_in |-> 300] }

\* The text of a JSON body with these members.
BodyText(error, description, access, id, expires) ==
  "{error:" \o Text(error) \o ",error_description:" \o Text(description)
  \o ",access_token:" \o Text(access) \o ",id_token:" \o id
  \o ",expires_in:" \o ToString(expires) \o "}"

\* The bodies of the token endpoint: not JSON, a provider error, a token
\* response; raw is string(body), the other fields what json.Unmarshal reads
\* from it.
TokenBodies ==
  { [json |-> FALSE, raw |-> "html", error |-> <<>>, error_description |-> <<>>,
     access_token |-> <<>>, id_token |-> "", expires_in |-> 0] }
  \cup { [json |-> TRUE, raw |-> BodyText(e, d, <<>>, "", 0), error |-> e,
          error_description |-> d, access_token |-> <<>>, id_token |-> "", expires_in |-> 0] :
         e \in {<<>>, <<"invalid_grant">>}, d \in {<<>>, <<"Code not valid">>} }
  \cup { [json |-> TRUE, raw |-> BodyText(<<>>, <<>>, j, m.id_token, m.expires_in),
          error |-> <<>>, error_description |-> <<>>, access_token |-> j,
          id_token |-> m.id_token, expires_in |-> m.expires_in] :
         j \in JWTs, m \in OtherMembers }

\* Two access tokens with the same claims and another signature.
TwinJWTs == { <<"h", ".", "pA", ".", "sig">>, <<"h", ".", "pA", ".", "sig2">> }

\* The bodies that come with another status than 200: not JSON, a provider
\* error, JSON without an error member, a token response all the same.
OtherStatusBodies ==
  { b \in TokenBodies : b.access_token = <<>> /\ b.id_token = "" /\ b.expires_in = 0 }
  \cup { [json |-> TRUE, raw |-> BodyText(<<>>, <<>>, j, "id1", 300), error |-> <<>>,
          error_description |-> <<>>, access_token |-> j, id_token |-> "id1", expires_in |-> 300] :
         j \in TwinJWTs }

TokenResponses ==
  { [kind |-> k, status |-> 0, body |-> CHOOSE b \in TokenBodies : ~b.json] : k \in {"neterr", "readerr"} }
  \cup { [kind |-> "http", status |-> StatusOK, body |-> b] : b \in TokenBodies }
  \cup { [kind |-> "http", status |-> 400, body |-> b] : b \in OtherStatusBodies }

\* ------------------------------------------------------------------- state

VARIABLES
  pc,          \* where the running command stands
  att,         \* the attempt: variant, acquirer, state, verifier, redirect target, authorization URL
  pendingCode, \* the authorization code the acquirer handed to the exchanger
  posts,       \* the POSTs this attempt sent to the token endpoint
  browser,     \* how often this attempt called browser.OpenURL
  result,      \* what Login, Refresh or TokenSetFromJWT returned: (tokens, err)
  obs,         \* the callback responses the acquirer looked at in this attempt
  file,        \* the token file: <<>> when absent
  httpReqs,    \* the GET requests Refresh's client sent in this attempt
  authResp,    \* the response Refresh's client returned
  listener,    \* the bridge listener: "none", "open", "closed"
  codeChan,    \* the bridge's handoff channel (capacity 1)
  handlers,    \* the results of the /exchange handlers blocked in their send
  served,      \* how many /exchange requests the listener has accepted
  shutdown,    \* the deferred srv.Shutdown: "none" before it is called, "waiting", then "nil" or "deadline" as it returned
  now,         \* the wall clock, in seconds since the epoch
  out,         \* what the running command emitted through ctx.Output
  exch,        \* the last call of exchangeCode: the answer it read and what it returned; the lines the attempt's calls left on stderr
  oserr,       \* the err of the command's last call into package os: "nil" when it succeeded or none was made
  wr,          \* the bytes a second process's os.WriteFile has yet to write: <<>> when none is under way
  logins       \* the bridge logins of a process that runs two at once, by name

vars == <<pc, att, pendingCode, posts, browser, result, obs, file,
          httpReqs, authResp, listener, codeChan, handlers, served, shutdown, now, out, exch,
          oserr, wr, logins>>

\* The silent refresh's HTTP side and the bridge server's side of the state.
httpVars == <<httpReqs, authResp>>
srvVars == <<listener, codeChan, handlers, served, shutdown>>

\* What no command of the one-command process writes: the clock, the second
\* process, and the logins of a process that runs two at once.
envVars == <<now, wr, logins>>

\* Nothing emitted.
NoOutput ==
  [emitted |-> FALSE, text |-> "", authenticated |-> FALSE, expired |-> FALSE,
   username |-> "", kundenkontoid |-> "", sub |-> "", expiresAt |-> TimeUnix(0, 0)]

\* ctx.Output.Emit of a payload about the token set t.
Emit(text, authenticated, expired, t) ==
  [emitted |-> TRUE, text |-> text, authenticated |-> authenticated, expired |-> expired,
   username |-> t.Username, kundenkontoid |-> t.Kundenkontoid, sub |-> t.Sub,
   expiresAt |-> t.ExpiresAt]

NoAttempt ==
  [variant |-> "none", acquirer |-> "none", st |-> "", verifier |-> "", redirect |-> "",
   authURL |-> [endpoint |-> "", query |-> <<>>]]

\* No callback response looked at yet.  status is the HTTP status of the silent
\* refresh's answer; mismatch records that some response carried a code with
\* another state than the attempt's.
NoObs ==
  [seen |-> FALSE, code |-> <<>>, state |-> <<>>, error |-> <<>>, status |-> 0,
   mismatch |-> FALSE]

Looked(carried, status, st, before) ==
  [seen |-> TRUE, code |-> carried.code, state |-> carried.state, error |-> carried.error,
   status |-> status,
   mismatch |-> before.mismatch \/ (carried.code # <<>> /\ carried.state # Str(st))]

NoResult == [tokens |-> <<>>, err |-> NoErr]

Failed(err) == [tokens |-> <<>>, err |-> err]

\* The part of a token endpoint's answer that exchangeCode's failure path
\* reads: the status, the body as text (which it reads only under another
\* status than 200) and its error fields.
RespView(resp) ==
  [kind |-> resp.kind, status |-> resp.status, json |-> resp.body.json,
   raw |-> IF resp.status # StatusOK THEN resp.body.raw ELSE "",
   error |-> resp.body.error, error_description |-> resp.body.error_description]

\* exchangeCode has not been called.
NoExch ==
  [resp |-> [kind |-> "none", status |-> 0, json |-> FALSE, raw |-> "", error |-> <<>>,
             error_description |-> <<>>],
   ret |-> NoResult, log |-> <<>>]

\* %v of a bool
FormatBool(b) == IF b THEN "true" ELSE "false"

\* The line exchangeCode writes to stderr once it has decoded the body of a
\* 200 answer; these bodies carry no refresh token.
DebugLine(body) ==
  "[debug] token response keys: access_token=" \o FormatBool(body.access_token # <<>>)
  \o ", id_token=" \o FormatBool(body.id_token # "")
  \o ", refresh_token=" \o FormatBool(FALSE)
  \o ", expires_in=" \o ToString(body.expires_in)

\* What a call of exchangeCode leaves on stderr: its debug line, and the status
\* message of Login when the polling login's exchange failed.
Log(resp, err, acquirer) ==
  (IF resp.kind = "http" /\ resp.status = StatusOK /\ resp.body.json
   THEN <<DebugLine(resp.body)>> ELSE <<>>)
  \o (IF IsErr(err) /\ acquirer = "poll"
      THEN <<"Auto-detect failed (" \o Error(err) \o "), falling back to manual mode...">>
      ELSE <<>>)

\* No response yet.
NoResp == [kind |-> "none", status |-> 0, location |-> URLView(<<>>)]

\* The two logins a process may run at once, and a login not started:
\* st, verifier and port are locals of Login and loginWithLocalServer, chan
\* is the channel made for this call, blocked its handlers waiting to send.
Attempts == {"A", "B"}

NoLogin ==
  [pc |-> "idle", st |-> "", verifier |-> "", port |-> "", listener |-> "none",
   chan |-> <<>>, blocked |-> <<>>, served |-> 0, got |-> <<>>, posts |-> <<>>, err |-> NoErr]

NoLogins == [a \in Attempts |-> NoLogin]

Init ==
  /\ pc = "idle"
  /\ att = NoAttempt
  /\ pendingCode = <<>>
  /\ posts = <<>>
  /\ browser = 0
  /\ result = NoResult
  /\ obs = NoObs
  /\ file = <<>>
  /\ httpReqs = <<>>
  /\ authResp = NoResp
  /\ listener = "none"
  /\ codeChan = <<>>
  /\ handlers = <<>>
  /\ served = 0
  /\ shutdown = "none"
  /\ now = 0
  /\ out = NoOutput
  /\ exch = NoExch
  /\ oserr = "nil"
  /\ wr = <<>>
  /\ logins = NoLogins

\* A command starts in a fresh process: each run of the program executes one
\* command and exits.
CanStart == pc = "idle"

\* A new command has sent nothing and listens nowhere.
NoTraffic ==
  /\ pendingCode' = <<>>
  /\ posts' = <<>>
  /\ obs' = NoObs
  /\ httpReqs' = <<>>
  /\ authResp' = NoResp

NoServer ==
  /\ listener' = "none"
  /\ codeChan' = <<>>
  /\ handlers' = <<>>
  /\ served' = 0
  /\ shutdown' = "none"

\* srv.Shutdown as the deferred call starts it: the listener is closed, and
\* with no connection still in a handler it returns nil at once; with handlers
\* blocked in their send it waits for them or for its context's deadline.
Shutdown(blocked) == IF blocked = <<>> THEN "nil" ELSE "waiting"

\* -------------------------------------------------------- manual-paste login

\* Login up to the prompt: PKCE pair, state, authorization URL, browser.
LoginBegin(randOK, v, s) ==
  LET g == generatePKCE(randOK, v)
  IN  IF IsErr(g.err)
      THEN [att |-> [NoAttempt EXCEPT !.variant = "paste"], browser |-> 0, pc |-> "done",
            result |-> Failed(Wrap("PKCE generation failed", g.err))]
      ELSE [att |-> [variant |-> "paste", acquirer |-> "paste", st |-> s, verifier |-> g.verifier,
                     redirect |-> realRedirectURI,
                     authURL |-> buildAuthURL(realRedirectURI, s, g.challenge)],
            browser |-> 1, pc |-> "paste_wait", result |-> NoResult]

\* A Login that leaves out the comparison of the returned state.
PasteOutcomeNoStateCheck(read, st) ==
  IF read.eof
  THEN [code |-> <<>>, err |-> Err("no input received", <<>>, <<>>, 0)]
  ELSE IF read.pastedURL.empty
  THEN [code |-> <<>>, err |-> Err("empty URL", <<>>, <<>>, 0)]
  ELSE [code |-> read.pastedURL.r.code, err |-> read.pastedURL.r.err]

\* Login from the scanner's read to the state check: (code, err).
PasteOutcome(read, st) ==
  IF read.eof
  THEN [code |-> <<>>, err |-> Err("no input received", <<>>, <<>>, 0)]
  ELSE IF read.pastedURL.empty
  THEN [code |-> <<>>, err |-> Err("empty URL", <<>>, <<>>, 0)]
  ELSE LET r == read.pastedURL.r
       IN  IF IsErr(r.err)
           THEN [code |-> <<>>, err |-> r.err]
           ELSE IF r.state # Str(st)
           THEN [code |-> <<>>, err |-> Err("state mismatch: possible CSRF attack", <<>>, <<>>, 0)]
           ELSE [code |-> r.code, err |-> NoErr]

LoginStart ==
  /\ CanStart
  /\ \E randOK \in BOOLEAN, v \in RandBuffers, s \in StateDraws :
       LET b == LoginBegin(randOK, v, s)
       IN  /\ att' = b.att
           /\ browser' = b.browser
           /\ pc' = b.pc
           /\ result' = b.result
  /\ NoTraffic
  /\ NoServer
  /\ UNCHANGED file
  /\ UNCHANGED <<out, oserr, exch, envVars>>

\* The user answers the prompt (loginWithPaste is Login's paste path, also the
\* polling login's fallback).
LoginPaste ==
  /\ pc = "paste_wait"
  /\ \E read \in StdinReads :
       LET o == PasteOutcome(read, att.st)
       IN  /\ obs' = IF read.eof \/ read.pastedURL.empty THEN obs
                     ELSE Looked(read.pastedURL.carried, 0, att.st, obs)
           /\ IF IsErr(o.err)
              THEN /\ pc' = "done"
                   /\ result' = Failed(o.err)
                   /\ pendingCode' = <<>>
              ELSE /\ pc' = "exchange"
                   /\ pendingCode' = o.code
                   /\ UNCHANGED result
  /\ UNCHANGED <<att, posts, browser, file, httpVars, srvVars>>
  /\ UNCHANGED <<out, oserr, exch, envVars>>

\* ------------------------------------------------------ browser-tab polling

\* Login on macOS up to the polling loop: loginWithBrowserPoll opens the
\* browser (detectBrowser always names one); when that fails Login falls back
\* to loginWithPaste, which opens the browser again and prompts.
PollBegin(randOK, v, s, openOK) ==
  LET g == generatePKCE(randOK, v)
      a == [variant |-> "poll", acquirer |-> "poll", st |-> s, verifier |-> g.verifier,
            redirect |-> realRedirectURI,
            authURL |-> buildAuthURL(realRedirectURI, s, g.challenge)]
  IN  IF IsErr(g.err)
      THEN [att |-> [NoAttempt EXCEPT !.variant = "poll"], browser |-> 0, pc |-> "done",
            result |-> Failed(Wrap("PKCE generation failed", g.err))]
      ELSE IF ~openOK
      THEN [att |-> [a EXCEPT !.acquirer = "paste"], browser |-> 2, pc |-> "paste_wait",
            result |-> NoResult]
      ELSE [att |-> a, browser |-> 1, pc |-> "poll", result |-> NoResult]

\* One turn of the polling loop on the tab's URL: go on polling, or exchange.
PollOutcome(tab, st) ==
  IF tab.err THEN [again |-> TRUE, code |-> <<>>]
  ELSE IF st \notin tab.tabURL.hasState THEN [again |-> TRUE, code |-> <<>>]
  ELSE IF IsErr(tab.tabURL.r.err) THEN [again |-> TRUE, code |-> <<>>]
  ELSE IF tab.tabURL.r.state # Str(st) THEN [again |-> TRUE, code |-> <<>>]
  ELSE [again |-> FALSE, code |-> tab.tabURL.r.code]

PollStart ==
  /\ CanStart
  /\ \E randOK \in BOOLEAN, v \in RandBuffers, s \in StateDraws, openOK \in BOOLEAN :
       LET b == PollBegin(randOK, v, s, openOK)
       IN  /\ att' = b.att
           /\ browser' = b.browser
           /\ pc' = b.pc
           /\ result' = b.result
  /\ NoTraffic
  /\ NoServer
  /\ UNCHANGED file
  /\ UNCHANGED <<out, oserr, exch, envVars>>

\* The loop's head finds the deadline passed: loginWithBrowserPoll times out
\* and Login falls back to loginWithPaste.
PollTimeout ==
  /\ pc = "poll"
  /\ pc' = "paste_wait"
  /\ att' = [att EXCEPT !.acquirer = "paste"]
  /\ browser' = browser + 1
  /\ UNCHANGED <<pendingCode, posts, result, obs, file, httpVars, srvVars>>
  /\ UNCHANGED <<out, oserr, exch, envVars>>

\* One turn of the loop before the deadline.
PollTick ==
  /\ pc = "poll"
  /\ \E tab \in TabReads :
       LET o == PollOutcome(tab, att.st)
       IN  /\ obs' = IF tab.err THEN obs ELSE Looked(tab.tabURL.carried, 0, att.st, obs)
           /\ pc' = IF o.again THEN "poll" ELSE "exchange"
           /\ pendingCode' = o.code
  /\ UNCHANGED <<att, posts, browser, result, file, httpVars, srvVars>>
  /\ UNCHANGED <<out, oserr, exch, envVars>>

\* ------------------------------------------------------------ the exchange

\* Whether the command that runs this attempt saves the tokens it gets: the
\* login command does, Refresh has no caller that saves.
SavedByCommand(variant) == variant \in {"paste", "poll", "server"}

\* An exchange after which a login that failed removes the stored token set.
ExchangeClearsOnFailure ==
  /\ pc = "exchange"
  /\ posts' = Append(posts, TokenRequest(pendingCode, att.verifier, att.redirect))
  /\ \E resp \in TokenResponses, saveOK \in BOOLEAN :
       LET x == exchangeCode(resp)
       IN  /\ exch' = [resp |-> RespView(resp), ret |-> x,
                       log |-> exch.log \o Log(resp, x.err, att.acquirer)]
           /\ IF IsErr(x.err) /\ att.acquirer = "poll"
              THEN /\ pc' = "paste_wait"
                   /\ att' = [att EXCEPT !.acquirer = "paste"]
                   /\ browser' = browser + 1
                   /\ UNCHANGED <<result, file, out, oserr>>
              ELSE /\ result' = x
                   /\ pc' = "done"
                   /\ file' = IF ~IsErr(x.err) /\ SavedByCommand(att.variant) /\ saveOK
                              THEN SaveTokens(file, x.tokens[1])
                              ELSE IF IsErr(x.err) /\ SavedByCommand(att.variant)
                              THEN <<>> ELSE file
                   /\ out' = IF ~IsErr(x.err) /\ SavedByCommand(att.variant) /\ saveOK
                             THEN Emit("Authenticated as", TRUE, FALSE, [x.tokens[1] EXCEPT !.Sub = ""])
                             ELSE out
                   /\ oserr' = IF ~IsErr(x.err) /\ SavedByCommand(att.variant) /\ ~saveOK
                               THEN "EIO" ELSE oserr
                   /\ UNCHANGED <<att, browser>>
  /\ listener' = IF listener = "open" THEN "closed" ELSE listener
  /\ shutdown' = IF listener = "open" THEN Shutdown(handlers) ELSE shutdown
  /\ UNCHANGED <<pendingCode, obs, httpVars, codeChan, handlers, served, envVars>>

\* exchangeCode: one POST, then the answer decides.  In the polling login a
\* failed exchange makes Login fall back to loginWithPaste.  A Login that
\* succeeds is saved by the login command, when the file system lets it, and
\* the command then emits its payload.
Exchange ==
  /\ pc = "exchange"
  /\ posts' = Append(posts, TokenRequest(pendingCode, att.verifier, att.redirect))
  /\ \E resp \in TokenResponses, saveOK \in BOOLEAN :
       LET x == exchangeCode(resp)
       IN  /\ exch' = [resp |-> RespView(resp), ret |-> x,
                       log |-> exch.log \o Log(resp, x.err, att.acquirer)]
           /\ IF IsErr(x.err) /\ att.acquirer = "poll"
              THEN /\ pc' = "paste_wait"
                   /\ att' = [att EXCEPT !.acquirer = "paste"]
                   /\ browser' = browser + 1
                   /\ UNCHANGED <<result, file, out, oserr>>
              ELSE /\ result' = x
                   /\ pc' = "done"
                   /\ file' = IF ~IsErr(x.err) /\ SavedByCommand(att.variant) /\ saveOK
                              THEN SaveTokens(file, x.tokens[1]) ELSE file
                   /\ out' = IF ~IsErr(x.err) /\ SavedByCommand(att.variant) /\ saveOK
                             THEN Emit("Authenticated as", TRUE, FALSE, [x.tokens[1] EXCEPT !.Sub = ""])
                             ELSE out
                   /\ oserr' = IF ~IsErr(x.err) /\ SavedByCommand(att.variant) /\ ~saveOK
                               THEN "EIO" ELSE oserr
                   /\ UNCHANGED <<att, browser>>
  /\ listener' = IF listener = "open" THEN "closed" ELSE listener
  /\ shutdown' = IF listener = "open" THEN Shutdown(handlers) ELSE shutdown
  /\ UNCHANGED <<pendingCode, obs, httpVars, codeChan, handlers, served, envVars>>

\* ------------------------------------------------------- auth token <jwt>

\* The token command: TokenSetFromJWT on the argument, then SaveTokens, then
\* the payload.
AuthTokenCmd ==
  /\ CanStart
  /\ \E jwt \in ArgJWTs, saveOK \in BOOLEAN :
       LET t == TokenSetFromJWT(jwt)
       IN  /\ result' = t
           /\ file' = IF ~IsErr(t.err) /\ saveOK THEN SaveTokens(file, t.tokens[1]) ELSE file
           /\ out' = IF ~IsErr(t.err) /\ saveOK
                     THEN Emit("Authenticated as", TRUE, FALSE, [t.tokens[1] EXCEPT !.Sub = ""])
                     ELSE NoOutput
           /\ oserr' = IF ~IsErr(t.err) /\ ~saveOK THEN "EIO" ELSE "nil"
  /\ att' = [NoAttempt EXCEPT !.variant = "token"]
  /\ pc' = "done"
  /\ browser' = 0
  /\ NoTraffic
  /\ NoServer
  /\ UNCHANGED <<exch, envVars>>

\* ----------------------------------------------------------- silent refresh

\* The two messages of Refresh that name the interactive login command.
ErrExpectedRedirect ==
  "refresh failed: expected redirect, got status %d (session likely expired - run 'bahn auth login')"
ErrSessionExpired == "session expired - run 'bahn auth login' to re-authenticate"

\* A client left with the default policy, which follows redirects.
CheckRedirectFollow == "follow"

\* The client's CheckRedirect policy: return http.ErrUseLastResponse.
CheckRedirect == "ErrUseLastResponse"

\* The statuses on which net/http's client consults CheckRedirect.
RedirectStatuses == {301, StatusFound, StatusSeeOther, 307, 308}

\* A GET of the client: the request sent, with the cookies attached to it.
Request(target, cookies) == [target |-> target, cookies |-> cookies]

\* What the authorization endpoint may answer when it does not redirect with
\* 302 or 303: no Location, or one of these.
OtherLocations ==
  { <<>>,
    <<realRedirectURI, "#", "code", "=", "c1", "&", "state", "=", "s1">>,
    <<realRedirectURI, "#", "code", "=", "c1", "&", "state", "=", "s2">>,
    <<realRedirectURI, "#", "error", "=", "login_required">>,
    <<realRedirectURI, "#", "error", "=", "interaction_required">> }

\* The answers to the authorization request: the request fails (no connection,
\* the 10 s timeout), or a response with a status and a Location header ("" when
\* the header is absent).
AuthResponses ==
  { [kind |-> "neterr", status |-> 0, location |-> URLView(<<>>)] }
  \cup { [kind |-> "http", status |-> c, location |-> v] :
         c \in {StatusFound, StatusSeeOther}, v \in URLViews \cup {URLView(<<>>)} }
  \cup { [kind |-> "http", status |-> c, location |-> URLView(u)] :
         c \in {StatusOK, 307}, u \in OtherLocations }

\* The page a client that followed the redirect would get from the target.
PageResponse == [kind |-> "http", status |-> StatusOK, location |-> URLView(<<>>)]

\* client.Get / client.Do once the first answer is in: with the policy
\* ErrUseLastResponse a redirect is returned as it is; a client that follows
\* requests the Location and returns that page.  (more, resp): the further
\* requests sent and the response returned.
ClientGet(policy, resp) ==
  IF /\ resp.kind = "http"
     /\ resp.status \in RedirectStatuses
     /\ ~resp.location.empty
     /\ policy # "ErrUseLastResponse"
  THEN [more |-> <<Request("location", {})>>, resp |-> PageResponse]
  ELSE [more |-> <<>>, resp |-> resp]

\* A Refresh that opens the authorization URL in the browser as Login does.
RefreshBeginOpensBrowser(randOK, v, s) ==
  LET g == generatePKCE(randOK, v)
  IN  IF IsErr(g.err)
      THEN [att |-> [NoAttempt EXCEPT !.variant = "refresh"], browser |-> 0, pc |-> "done",
            reqs |-> <<>>, result |-> Failed(Wrap("PKCE generation failed", g.err))]
      ELSE [att |-> [variant |-> "refresh", acquirer |-> "refresh", st |-> s,
                     verifier |-> g.verifier, redirect |-> realRedirectURI,
                     authURL |-> WithPromptNone(buildAuthURL(realRedirectURI, s, g.challenge))],
            browser |-> 1, pc |-> "refresh_wait",
            reqs |-> <<Request("auth", {})>>, result |-> NoResult]

\* Refresh up to the request (internal/auth): PKCE pair, state, authorization
\* URL with prompt=none; the request is sent without cookies and no browser is
\* opened.
RefreshBegin(randOK, v, s) ==
  LET g == generatePKCE(randOK, v)
  IN  IF IsErr(g.err)
      THEN [att |-> [NoAttempt EXCEPT !.variant = "refresh"], browser |-> 0, pc |-> "done",
            reqs |-> <<>>, result |-> Failed(Wrap("PKCE generation failed", g.err))]
      ELSE [att |-> [variant |-> "refresh", acquirer |-> "refresh", st |-> s,
                     verifier |-> g.verifier, redirect |-> realRedirectURI,
                     authURL |-> WithPromptNone(buildAuthURL(realRedirectURI, s, g.challenge))],
            browser |-> 0, pc |-> "refresh_wait",
            reqs |-> <<Request("auth", {})>>, result |-> NoResult]

\* A Refresh that reports every extraction failure as a generic failure.
RefreshOutcomeAlwaysGeneric(resp, st) ==
  IF resp.kind = "neterr"
  THEN [code |-> <<>>, err |-> Err("refresh request failed", <<>>, <<>>, 0)]
  ELSE IF resp.status # StatusFound /\ resp.status # StatusSeeOther
  THEN [code |-> <<>>, err |-> Err(ErrExpectedRedirect, <<>>, <<>>, resp.status)]
  ELSE IF resp.location.empty
  THEN [code |-> <<>>, err |-> Err("refresh failed: no redirect location", <<>>, <<>>, 0)]
  ELSE LET r == resp.location.r
       IN  IF IsErr(r.err)
           THEN [code |-> <<>>, err |-> Wrap("refresh failed", r.err)]
           ELSE IF r.state # Str(st)
           THEN [code |-> <<>>, err |-> Err("state mismatch during refresh", <<>>, <<>>, 0)]
           ELSE [code |-> r.code, err |-> NoErr]

\* A Refresh that accepts 302 alone.
RefreshOutcomeOnlyFound(resp, st) ==
  IF resp.kind = "neterr"
  THEN [code |-> <<>>, err |-> Err("refresh request failed", <<>>, <<>>, 0)]
  ELSE IF resp.status # StatusFound
  THEN [code |-> <<>>, err |-> Err(ErrExpectedRedirect, <<>>, <<>>, resp.status)]
  ELSE IF resp.location.empty
  THEN [code |-> <<>>, err |-> Err("refresh failed: no redirect location", <<>>, <<>>, 0)]
  ELSE LET r == resp.location.r
       IN  IF IsErr(r.err)
           THEN IF resp.location.hasLoginRequired
                THEN [code |-> <<>>, err |-> Err(ErrSessionExpired, <<>>, <<>>, 0)]
                ELSE [code |-> <<>>, err |-> Wrap("refresh failed", r.err)]
           ELSE IF r.state # Str(st)
           THEN [code |-> <<>>, err |-> Err("state mismatch during refresh", <<>>, <<>>, 0)]
           ELSE [code |-> r.code, err |-> NoErr]

\* A Refresh that reports every failure as the expired session.
RefreshOutcomeAllExpired(resp, st) ==
  IF resp.kind = "neterr"
  THEN [code |-> <<>>, err |-> Err(ErrSessionExpired, <<>>, <<>>, 0)]
  ELSE IF resp.status # StatusFound /\ resp.status # StatusSeeOther
  THEN [code |-> <<>>, err |-> Err(ErrSessionExpired, <<>>, <<>>, 0)]
  ELSE IF resp.location.empty
  THEN [code |-> <<>>, err |-> Err(ErrSessionExpired, <<>>, <<>>, 0)]
  ELSE LET r == resp.location.r
       IN  IF IsErr(r.err)
           THEN [code |-> <<>>, err |-> Err(ErrSessionExpired, <<>>, <<>>, 0)]
           ELSE IF r.state # Str(st)
           THEN [code |-> <<>>, err |-> Err(ErrSessionExpired, <<>>, <<>>, 0)]
           ELSE [code |-> r.code, err |-> NoErr]

\* Refresh from the response to the state check (internal/auth): (code, err).
RefreshOutcome(resp, st) ==
  IF resp.kind = "neterr"
  THEN [code |-> <<>>, err |-> Err("refresh request failed", <<>>, <<>>, 0)]
  ELSE IF resp.status # StatusFound /\ resp.status # StatusSeeOther
  THEN [code |-> <<>>,
        err |-> Err(ErrExpectedRedirect, <<>>, <<>>, resp.status)]
  ELSE IF resp.location.empty
  THEN [code |-> <<>>, err |-> Err("refresh failed: no redirect location", <<>>, <<>>, 0)]
  ELSE LET r == resp.location.r
       IN  IF IsErr(r.err)
           THEN IF resp.location.hasLoginRequired
                THEN [code |-> <<>>,
                      err |-> Err(ErrSessionExpired, <<>>, <<>>, 0)]
                ELSE [code |-> <<>>, err |-> Wrap("refresh failed", r.err)]
           ELSE IF r.state # Str(st)
           THEN [code |-> <<>>, err |-> Err("state mismatch during refresh", <<>>, <<>>, 0)]
           ELSE [code |-> r.code, err |-> NoErr]

\* What sweetcookie.Get reads from the browser for accounts.bahn.de.
CookieReads ==
  { [err |-> TRUE, cookies |-> {}],
    [err |-> FALSE, cookies |-> {}],
    [err |-> FALSE, cookies |-> {"KEYCLOAK_SESSION", "KEYCLOAK_IDENTITY"}] }

\* Refresh up to the request (the cookie-replaying Refresh): as above, then the
\* browser's cookies are read and attached to the request.
RefreshCookiesBegin(randOK, v, s, read) ==
  LET g == generatePKCE(randOK, v)
      a == [variant |-> "refresh_cookies", acquirer |-> "refresh", st |-> s,
            verifier |-> g.verifier, redirect |-> realRedirectURI,
            authURL |-> WithPromptNone(buildAuthURL(realRedirectURI, s, g.challenge))]
  IN  IF IsErr(g.err)
      THEN [att |-> [NoAttempt EXCEPT !.variant = "refresh_cookies"], browser |-> 0,
            pc |-> "done", reqs |-> <<>>,
            result |-> Failed(Wrap("PKCE generation failed", g.err))]
      ELSE IF read.err
      THEN [att |-> a, browser |-> 0, pc |-> "done", reqs |-> <<>>,
            result |-> Failed(Err("failed to read browser cookies", <<>>, <<>>, 0))]
      ELSE IF read.cookies = {}
      THEN [att |-> a, browser |-> 0, pc |-> "done", reqs |-> <<>>,
            result |-> Failed(Err("no cookies found for accounts.bahn.de", <<>>, <<>>, 0))]
      ELSE [att |-> a, browser |-> 0, pc |-> "refresh_wait",
            reqs |-> <<Request("auth", read.cookies)>>, result |-> NoResult]

\* Refresh from the response to the state check (the cookie-replaying Refresh).
RefreshCookiesOutcome(resp, st) ==
  IF resp.kind = "neterr"
  THEN [code |-> <<>>, err |-> Err("refresh request failed", <<>>, <<>>, 0)]
  ELSE IF resp.status # StatusFound /\ resp.status # StatusSeeOther
  THEN [code |-> <<>>,
        err |-> Err(ErrExpectedRedirect, <<>>, <<>>, resp.status)]
  ELSE IF resp.location.empty
  THEN [code |-> <<>>, err |-> Err("refresh failed: no redirect location", <<>>, <<>>, 0)]
  ELSE LET r == resp.location.r
       IN  IF IsErr(r.err)
           THEN IF resp.location.hasLoginRequired \/ resp.location.hasInteractionRequired
                THEN [code |-> <<>>,
                      err |-> Err(ErrSessionExpired, <<>>, <<>>, 0)]
                ELSE [code |-> <<>>, err |-> Wrap("refresh failed", r.err)]
           ELSE IF r.state # Str(st)
           THEN [code |-> <<>>, err |-> Err("state mismatch during refresh", <<>>, <<>>, 0)]
           ELSE [code |-> r.code, err |-> NoErr]

\* The error messages that tell the caller to run the interactive login.
InstructsLogin(err) ==
  err.kind \in {ErrExpectedRedirect, ErrSessionExpired}

RefreshStart ==
  /\ CanStart
  /\ \E randOK \in BOOLEAN, v \in RandBuffers, s \in StateDraws :
       LET b == RefreshBegin(randOK, v, s)
       IN  /\ att' = b.att
           /\ browser' = b.browser
           /\ pc' = b.pc
           /\ result' = b.result
           /\ httpReqs' = b.reqs
  /\ pendingCode' = <<>>
  /\ posts' = <<>>
  /\ obs' = NoObs
  /\ authResp' = NoResp
  /\ NoServer
  /\ UNCHANGED file
  /\ UNCHANGED <<out, oserr, exch, envVars>>

RefreshCookiesStart ==
  /\ CanStart
  /\ \E randOK \in BOOLEAN, v \in RandBuffers, s \in StateDraws, read \in CookieReads :
       LET b == RefreshCookiesBegin(randOK, v, s, read)
       IN  /\ att' = b.att
           /\ browser' = b.browser
           /\ pc' = b.pc
           /\ result' = b.result
           /\ httpReqs' = b.reqs
  /\ pendingCode' = <<>>
  /\ posts' = <<>>
  /\ obs' = NoObs
  /\ authResp' = NoResp
  /\ NoServer
  /\ UNCHANGED file
  /\ UNCHANGED <<out, oserr, exch, envVars>>

\* The client returns: Refresh inspects the response and fails or goes on to
\* the exchange.
RefreshResponse ==
  /\ pc = "refresh_wait"
  /\ \E answer \in AuthResponses :
       LET g == ClientGet(CheckRedirect, answer)
           o == IF att.variant = "refresh"
                THEN RefreshOutcome(g.resp, att.st)
                ELSE RefreshCookiesOutcome(g.resp, att.st)
       IN  /\ httpReqs' = httpReqs \o g.more
           /\ authResp' = g.resp
           /\ obs' = IF g.resp.kind = "neterr" THEN obs
                     ELSE Looked(g.resp.location.carried, g.resp.status, att.st, obs)
           /\ pendingCode' = o.code
           /\ IF IsErr(o.err)
              THEN /\ pc' = "done"
                   /\ result' = Failed(o.err)
              ELSE /\ pc' = "exchange"
                   /\ UNCHANGED result
  /\ UNCHANGED <<att, posts, browser, file, srvVars>>
  /\ UNCHANGED <<out, oserr, exch, envVars>>

\* ------------------------------------------------------- local bridge server

\* The redirect target of the bridge variant: the listener's ephemeral port.
localRedirectURI == "http://localhost:%d/callback"

\* The /exchange handler: the callbackResult it sends on the channel.
\* r.URL.Query() drops the pairs that do not parse and reports nothing.
callbackHandler(query) ==
  LET q == ParseQuery(query).m
      codeParam == Get(q, "code")
      errParam == Get(q, "error")
  IN  IF errParam # <<>>
      THEN [code |-> <<>>, state |-> <<>>,
            err |-> Err("auth error", errParam, Get(q, "error_description"), 0)]
      ELSE IF codeParam = <<>>
      THEN [code |-> <<>>, state |-> <<>>, err |-> Err("no auth code received", <<>>, <<>>, 0)]
      ELSE [code |-> codeParam, state |-> Get(q, "state"), err |-> NoErr]

\* The decoding of URLSearchParams: "+" becomes a space, a valid escape is
\* decoded, an invalid escape stays as it is written.
JSDecode(s) ==
  [i \in 1..Len(s) |->
     CASE s[i] \in {PlusAtom, EscapedSpaceAtom} -> SpaceAtom
       [] s[i] = EscapedPercentAtom -> BadEscapeAtom
       [] OTHER -> s[i]]

\* new URLSearchParams(init): the name/value pairs in order; empty pieces are
\* skipped and nothing fails.
RECURSIVE URLSearchParams(_)
URLSearchParams(init) ==
  IF init = <<>>
  THEN <<>>
  ELSE LET c == Cut(init, "&")
           kv == Cut(c.before, "=")
       IN  IF c.before = <<>>
           THEN URLSearchParams(c.after)
           ELSE <<[k |-> JSDecode(kv.before), v |-> JSDecode(kv.after)]>>
                  \o URLSearchParams(c.after)

\* encodeURIComponent: a space is written "%20", a percent sign "%25".
encodeURIComponent(s) ==
  [i \in 1..Len(s) |->
     CASE s[i] = SpaceAtom -> EscapedSpaceAtom
       [] s[i] = BadEscapeAtom -> EscapedPercentAtom
       [] OTHER -> s[i]]

\* The script of callbackHTML: from location.hash without its "#", the query
\* of the /exchange request it fetches.  params.get gives the first value; an
\* absent and an empty value are both false in the script's tests.
callbackHTML(hash) ==
  LET params == URLSearchParams(hash)
      codeParam == Get(params, "code")
      stateParam == Get(params, "state")
      errParam == Get(params, "error")
      errorDesc == Get(params, "error_description")
  IN  IF errParam # <<>>
      THEN <<"error", "=">> \o encodeURIComponent(errParam)
             \o <<"&", "error_description", "=">> \o encodeURIComponent(errorDesc)
      ELSE IF codeParam # <<>>
      THEN <<"code", "=">> \o encodeURIComponent(codeParam)
             \o <<"&", "state", "=">> \o encodeURIComponent(stateParam)
      ELSE <<"error", "=", "no_code", "&", "error_description", "=", NoCodeDescription>>

\* The results the handler can send, over the queries a client may request
\* and those the callback page fetches.
CallbackResults ==
  { callbackHandler(JoinAmp(ps)) : ps \in ParamSeqs }
    \cup { callbackHandler(callbackHTML(JoinAmp(ps))) : ps \in ParamSeqs }

\* What a callbackResult shows of the callback: code, state and provider error.
CarriedResult(m) ==
  [code |-> m.code, state |-> m.state,
   error |-> IF m.err.kind = "auth error" THEN m.err.a ELSE <<>>]

\* Login's PKCE pair and state, then loginWithLocalServer up to the select:
\* listen, serve, open the browser.  The deferred shutdown closes the listener
\* on every return after the listen.
ServerBegin(randOK, v, s, listenOK, openOK) ==
  LET g == generatePKCE(randOK, v)
      a == [variant |-> "server", acquirer |-> "server", st |-> s, verifier |-> g.verifier,
            redirect |-> localRedirectURI,
            authURL |-> buildAuthURL(localRedirectURI, s, g.challenge)]
  IN  IF IsErr(g.err)
      THEN [att |-> [NoAttempt EXCEPT !.variant = "server"], browser |-> 0, pc |-> "done",
            listener |-> "none", result |-> Failed(Wrap("PKCE generation failed", g.err))]
      ELSE IF ~listenOK
      THEN [att |-> [NoAttempt EXCEPT !.variant = "server"], browser |-> 0, pc |-> "done",
            listener |-> "none", result |-> Failed(Err("net.Listen", <<>>, <<>>, 0))]
      ELSE IF ~openOK
      THEN [att |-> a, browser |-> 1, pc |-> "done", listener |-> "closed",
            result |-> Failed(Err("browser.OpenURL", <<>>, <<>>, 0))]
      ELSE [att |-> a, browser |-> 1, pc |-> "srv_wait", listener |-> "open",
            result |-> NoResult]

\* A loginWithLocalServer that exchanges the code without comparing the state.
ServerOutcomeNoStateCheck(m, st) ==
  IF IsErr(m.err)
  THEN [code |-> <<>>, err |-> m.err]
  ELSE [code |-> m.code, err |-> NoErr]

\* loginWithLocalServer from the received result to the state check: (code, err).
ServerOutcome(m, st) ==
  IF IsErr(m.err)
  THEN [code |-> <<>>, err |-> m.err]
  ELSE IF m.state # Str(st)
  THEN [code |-> <<>>, err |-> Err("state mismatch", <<>>, <<>>, 0)]
  ELSE [code |-> m.code, err |-> NoErr]

ServerStart ==
  /\ CanStart
  /\ \E randOK \in BOOLEAN, v \in RandBuffers, s \in StateDraws, listenOK \in BOOLEAN, openOK \in BOOLEAN :
       LET b == ServerBegin(randOK, v, s, listenOK, openOK)
       IN  /\ att' = b.att
           /\ browser' = b.browser
           /\ pc' = b.pc
           /\ result' = b.result
           /\ listener' = b.listener
           /\ shutdown' = IF b.listener = "closed" THEN Shutdown(<<>>) ELSE "none"
  /\ NoTraffic
  /\ codeChan' = <<>>
  /\ handlers' = <<>>
  /\ served' = 0
  /\ UNCHANGED file
  /\ UNCHANGED <<out, oserr, exch, envVars>>

\* A GET /exchange reaches the listener: the handler computes its result and
\* sends it; with the channel full the handler blocks in the send.
SrvRequest ==
  /\ listener = "open"
  /\ served < MaxRequests
  /\ served' = served + 1
  /\ \E m \in CallbackResults :
       IF Len(codeChan) < 1
       THEN /\ codeChan' = Append(codeChan, m)
            /\ UNCHANGED handlers
       ELSE /\ handlers' = Append(handlers, m)
            /\ UNCHANGED codeChan
  /\ UNCHANGED <<pc, att, pendingCode, posts, browser, result, obs, file, httpVars, listener, shutdown>>
  /\ UNCHANGED <<out, oserr, exch, envVars>>

\* A blocked handler's send goes through once the channel has room.
SrvUnblock ==
  /\ handlers # <<>>
  /\ codeChan = <<>>
  /\ \E i \in 1..Len(handlers) :
       /\ codeChan' = <<handlers[i]>>
       /\ handlers' = SubSeq(handlers, 1, i - 1) \o SubSeq(handlers, i + 1, Len(handlers))
  /\ UNCHANGED <<pc, att, pendingCode, posts, browser, result, obs, file, httpVars, listener, served, shutdown>>
  /\ UNCHANGED <<out, oserr, exch, envVars>>

\* A wait that takes a result and, when it is an error, waits for another.
SrvReceiveKeepsWaiting ==
  /\ pc = "srv_wait"
  /\ codeChan # <<>>
  /\ codeChan' = Tail(codeChan)
  /\ LET o == ServerOutcome(Head(codeChan), att.st)
     IN  /\ obs' = Looked(CarriedResult(Head(codeChan)), 0, att.st, obs)
         /\ pendingCode' = o.code
         /\ pc' = IF IsErr(o.err) THEN "srv_wait" ELSE "exchange"
         /\ UNCHANGED <<result, listener, shutdown>>
  /\ UNCHANGED <<att, posts, browser, file, httpVars, handlers, served>>
  /\ UNCHANGED <<out, oserr, exch, envVars>>

\* The select receives a result from the channel.
SrvReceive ==
  /\ pc = "srv_wait"
  /\ codeChan # <<>>
  /\ codeChan' = Tail(codeChan)
  /\ LET o == ServerOutcome(Head(codeChan), att.st)
     IN  /\ obs' = Looked(CarriedResult(Head(codeChan)), 0, att.st, obs)
         /\ pendingCode' = o.code
         /\ IF IsErr(o.err)
            THEN /\ pc' = "done"
                 /\ result' = Failed(o.err)
                 /\ listener' = "closed"
                 /\ shutdown' = Shutdown(handlers)
            ELSE /\ pc' = "exchange"
                 /\ UNCHANGED <<result, listener, shutdown>>
  /\ UNCHANGED <<att, posts, browser, file, httpVars, handlers, served>>
  /\ UNCHANGED <<out, oserr, exch, envVars>>

\* The select's timer fires.
SrvTimeout ==
  /\ pc = "srv_wait"
  /\ pc' = "done"
  /\ result' = Failed(Err("login timed out", <<>>, <<>>, 0))
  /\ listener' = "closed"
  /\ shutdown' = Shutdown(handlers)
  /\ UNCHANGED <<att, pendingCode, posts, browser, obs, file, httpVars, codeChan, handlers, served>>
  /\ UNCHANGED <<out, oserr, exch, envVars>>

\* While srv.Shutdown waits, the last handler has returned: Shutdown finds
\* every connection idle and returns nil.
ShutdownPoll ==
  /\ shutdown = "waiting"
  /\ handlers = <<>>
  /\ shutdown' = "nil"
  /\ UNCHANGED <<pc, att, pendingCode, posts, browser, result, obs, file, httpVars>>
  /\ UNCHANGED <<listener, codeChan, handlers, served>>
  /\ UNCHANGED <<out, oserr, exch, envVars>>

\* A Shutdown whose context has no deadline.
ShutdownNoDeadline ==
  /\ shutdown = "waiting"
  /\ FALSE
  /\ UNCHANGED vars

\* The two seconds of Shutdown's context are over: Shutdown returns the
\* context's error, which the deferred function drops.
ShutdownDeadline ==
  /\ shutdown = "waiting"
  /\ shutdown' = "deadline"
  /\ UNCHANGED <<pc, att, pendingCode, posts, browser, result, obs, file, httpVars>>
  /\ UNCHANGED <<listener, codeChan, handlers, served>>
  /\ UNCHANGED <<out, oserr, exch, envVars>>

\* ------------------------------------------------- status and clear commands

\* The status command: LoadTokens; an error is returned, no token set is
\* reported as not authenticated, a token set with IsExpired at time.Now().
AuthStatusCmd ==
  /\ CanStart
  /\ LET l == LoadTokens(file)
     IN  /\ result' = l
         /\ out' = IF IsErr(l.err) THEN NoOutput
                   ELSE IF l.tokens = <<>>
                   THEN [NoOutput EXCEPT !.emitted = TRUE, !.text = "Not authenticated."]
                   ELSE IF IsExpired(l.tokens[1], TimeUnix(now, 0))
                   THEN Emit("Token: expired", FALSE, TRUE, l.tokens[1])
                   ELSE Emit("Token: valid", TRUE, FALSE, l.tokens[1])
  /\ oserr' = ReadFile(file).err.kind
  /\ att' = [NoAttempt EXCEPT !.variant = "status"]
  /\ pc' = "done"
  /\ browser' = 0
  /\ NoTraffic
  /\ NoServer
  /\ UNCHANGED <<file, exch, envVars>>

\* The clear command: ClearTokens, then the payload.
AuthClearCmd ==
  /\ CanStart
  /\ LET c == ClearTokens(file)
     IN  /\ file' = c.file
         /\ result' = Failed(c.err)
         /\ out' = IF IsErr(c.err) THEN NoOutput
                   ELSE [NoOutput EXCEPT !.emitted = TRUE, !.text = "Credentials cleared."]
  /\ oserr' = Remove(file).err.kind
  /\ att' = [NoAttempt EXCEPT !.variant = "clear"]
  /\ pc' = "done"
  /\ browser' = 0
  /\ NoTraffic
  /\ NoServer
  /\ UNCHANGED <<exch, envVars>>

\* ------------------------------------------------------------- exit codes

\* WrapExit: an error with an exit code of its own.
WrapExit(exitCode, err) ==
  IF ~IsErr(err) THEN NoErr
  ELSE [kind |-> "ExitError", a |-> err.a, b |-> err.b, n |-> exitCode, w |-> err.kind]

\* isNetErr, as the values errors.As may find for an error of this model: the
\* errors of http.Post and client.Get are *url.Error, a net.Error; the error
\* of reading the body may be one (a reset connection) or not (an unexpected
\* EOF); no other error wraps one.  errors.As looks through an ExitError at
\* the error it wraps.
isNetErr(err) ==
  LET kind == IF err.kind = "ExitError" THEN err.w ELSE err.kind
  IN  IF kind \in {"token exchange failed: %w", "refresh request failed"} THEN {TRUE}
      ELSE IF kind = "reading token response" THEN {TRUE, FALSE}
      ELSE {FALSE}

\* An ExitCode that returns the code of an ExitError whatever it is.
ExitCodeAnyCode(err, netErr) ==
  IF ~IsErr(err) THEN 0
  ELSE IF err.kind = "ExitError" THEN err.n
  ELSE IF netErr THEN 3
  ELSE 1

\* ExitCode, with netErr for what isNetErr returns.
ExitCode(err, netErr) ==
  IF ~IsErr(err) THEN 0
  ELSE IF err.kind = "ExitError" /\ err.n # 0 THEN err.n
  ELSE IF netErr THEN 3
  ELSE 1

\* The command line does not parse (an unknown command, a missing argument):
\* parser.Parse returns an error.
UsageError ==
  /\ CanStart
  /\ result' = Failed(Err("kong: parse error", <<>>, <<>>, 0))
  /\ att' = [NoAttempt EXCEPT !.variant = "usage"]
  /\ pc' = "done"
  /\ browser' = 0
  /\ out' = NoOutput
  /\ oserr' = "nil"
  /\ NoTraffic
  /\ NoServer
  /\ UNCHANGED <<file, exch, envVars>>

\* The command line parses and app.NewContext fails on the configuration.
ContextError ==
  /\ CanStart
  /\ result' = Failed(Err("config.Load", <<>>, <<>>, 0))
  /\ att' = [NoAttempt EXCEPT !.variant = "context"]
  /\ pc' = "done"
  /\ browser' = 0
  /\ out' = NoOutput
  /\ oserr' = "nil"
  /\ NoTraffic
  /\ NoServer
  /\ UNCHANGED <<file, exch, envVars>>

\* The refresh command: not implemented, an error with exit code 1.
AuthRefreshCmd ==
  /\ CanStart
  /\ result' = Failed(WrapExit(1, Err("not implemented yet - silent refresh coming in step 4",
                                      <<>>, <<>>, 0)))
  /\ att' = [NoAttempt EXCEPT !.variant = "refresh_cmd"]
  /\ pc' = "done"
  /\ browser' = 0
  /\ out' = NoOutput
  /\ oserr' = "nil"
  /\ NoTraffic
  /\ NoServer
  /\ UNCHANGED <<file, exch, envVars>>

\* The variants that are commands of the program.
Commands == {"paste", "poll", "server", "token", "status", "clear", "refresh_cmd"}

\* What kctx.Run returned, the command done: the error of the command's
\* library call, with the token command's prefix, or else the error of its
\* call into package os.
RunErr ==
  IF IsErr(result.err)
  THEN IF att.variant = "token" THEN Wrap("invalid JWT", result.err) ELSE result.err
  ELSE IF oserr \notin {"nil", "ErrNotExist"} THEN Err(oserr, <<>>, <<>>, 0)
  ELSE NoErr

\* run: the exit codes the process may end with, the command done.
run ==
  IF att.variant = "usage" THEN {2}
  ELSE IF att.variant = "context" THEN {1}
  ELSE { ExitCode(RunErr, netErr) : netErr \in isNetErr(RunErr) }

\* Output.Errorf("%v", err), the line run writes when the command returned an
\* error.
Errorf(err) == "error: " \o Error(err)

\* The lines on stderr that carry a value of the run: those of exchangeCode and
\* Login, then run's line for the error the command returned.
Stderr ==
  exch.log
  \o (IF pc = "done" /\ att.variant \in Commands /\ IsErr(RunErr)
      THEN <<Errorf(RunErr)>> ELSE <<>>)

\* ------------------------------------------------- the clock, a second process

\* What the one-command process holds.
oneVars ==
  <<pc, att, pendingCode, posts, browser, result, obs, httpVars, srvVars, out, exch, oserr>>

\* What this process holds: all but the token file, the clock and the second
\* process.
procVars == <<oneVars, logins>>

\* A second passes.
Tick ==
  /\ now < MaxClock
  /\ now' = now + 1
  /\ UNCHANGED <<procVars, file, wr>>

\* The token sets a second bahn process saves.
SecondTokens ==
  { TokenSetFromJWT(<<"h", ".", p, ".", "sig">>).tokens[1] : p \in {"pA", "pB"} }

\* os.WriteFile in the second process's SaveTokens opens the file: O_CREATE
\* makes it with mode 0600 when absent, O_TRUNC empties it.
SaveTokensOpen ==
  /\ wr = <<>>
  /\ \E t \in SecondTokens : wr' = <<MarshalTokenSet(t)>>
  /\ file' = WriteFile(file, <<>>, OwnerOnly)
  /\ UNCHANGED <<procVars, now>>

\* The second process writes its bytes at offset 0 and closes.  A file removed
\* since the open stays removed; bytes another save wrote since the open are
\* overwritten from the start, and what is longer than the new text stays
\* behind it.
SaveTokensWrite ==
  /\ wr # <<>>
  /\ wr' = <<>>
  /\ \/ /\ file = <<>>
        /\ UNCHANGED file
     \/ /\ file # <<>>
        /\ file' = << [file[1] EXCEPT !.data = wr] >>
     \/ /\ file # <<>>
        /\ file[1].data # <<>>
        /\ file[1].data # wr
        /\ file' = << [file[1] EXCEPT !.data = wr \o <<"tail">>] >>
  /\ UNCHANGED <<procVars, now>>

\* The second process is killed between the open and the write.
SaveTokensKilled ==
  /\ wr # <<>>
  /\ wr' = <<>>
  /\ UNCHANGED <<procVars, now, file>>

\* ------------------------------------------------------------ process exit

\* The command has returned and the process exits: what it held in memory is
\* gone, its listener and goroutines with it; the token file stays.
Exit ==
  /\ pc = "done"
  /\ shutdown # "waiting"
  /\ pc' = "idle"
  /\ att' = NoAttempt
  /\ browser' = 0
  /\ result' = NoResult
  /\ NoTraffic
  /\ NoServer
  /\ UNCHANGED file
  /\ out' = NoOutput
  /\ exch' = NoExch
  /\ oserr' = "nil"
  /\ UNCHANGED envVars

\* ------------------------------------------------------------------- next

Next ==
  \/ LoginStart
  \/ LoginPaste
  \/ PollStart
  \/ PollTimeout
  \/ PollTick
  \/ Exchange
  \/ AuthTokenCmd
  \/ AuthRefreshCmd
  \/ RefreshStart
  \/ RefreshCookiesStart
  \/ RefreshResponse
  \/ ServerStart
  \/ SrvRequest
  \/ SrvUnblock
  \/ SrvReceive
  \/ SrvTimeout
  \/ ShutdownPoll
  \/ ShutdownDeadline
  \/ Exit

Spec == Init /\ [][Next]_vars

\* The bridge login alone, with the runtime's timers firing: the select's
\* timer is one of its cases, and the deadline of Shutdown's context comes.
BridgeNext ==
  \/ ServerStart
  \/ SrvRequest
  \/ SrvUnblock
  \/ SrvReceive
  \/ SrvTimeout
  \/ Exchange
  \/ ShutdownPoll
  \/ ShutdownDeadline
  \/ Exit

BridgeSpec ==
  /\ Init
  /\ [][BridgeNext]_vars
  /\ WF_vars(ShutdownPoll)
  /\ WF_vars(ShutdownDeadline)

\* The logins that wait for a callback (the bridge login, and the polling
\* login with its fallback to the prompt), with the runtime's timers firing
\* (the select's timer, the polling loop's deadline passing) and a send that
\* has room in the channel going through.
WaitNext ==
  \/ ServerStart
  \/ SrvRequest
  \/ SrvUnblock
  \/ SrvReceive
  \/ SrvTimeout
  \/ ShutdownPoll
  \/ ShutdownDeadline
  \/ PollStart
  \/ PollTick
  \/ PollTimeout
  \/ LoginPaste
  \/ Exchange
  \/ Exit

WaitSpec ==
  /\ Init
  /\ [][WaitNext]_vars
  /\ WF_vars(SrvTimeout)
  /\ WF_vars(PollTimeout)
  /\ WF_vars(SrvUnblock)
  /\ WF_vars(ShutdownPoll)
  /\ WF_vars(ShutdownDeadline)

\* ---------------------------------------------- two bridge logins at once

\* The other of the two logins.
Other(a) == CHOOSE b \in Attempts : b # a

\* The authorization code the provider issues for a login's request.
CodeFor(a) == IF a = "A" THEN "cA" ELSE "cB"

\* The ephemeral ports net.Listen may be given.
Ports == {"p1", "p2"}

\* The callback the provider sends the browser to for login i, as the query
\* the bridge page fetches /exchange with: the code or the error, and the state
\* of i's authorization URL.
CallbackFor(i, refused) ==
  (IF refused THEN <<"error", "=", "access_denied">> ELSE <<"code", "=", CodeFor(i)>>)
    \o <<"&", "state", "=", logins[i].st>>

\* Login and loginWithLocalServer up to the select, for one of two logins of
\* the same process.  What rand.Read yields when it succeeds is fresh; the
\* port is one no open listener holds.
PairStart ==
  \E a \in Attempts :
    /\ logins[a].pc = "idle"
    /\ \E randOK \in BOOLEAN, stOK \in BOOLEAN, v \in RandBuffers, s \in States,
          p \in Ports, listenOK \in BOOLEAN, openOK \in BOOLEAN :
         LET g == generatePKCE(randOK, v)
             o == logins[Other(a)]
             l == [NoLogin EXCEPT !.verifier = g.verifier, !.st = randomString(stOK, s)]
         IN  /\ randOK => g.verifier # o.verifier
             /\ stOK => s # o.st
             /\ ~(o.listener = "open" /\ o.port = p)
             /\ logins' = [logins EXCEPT ![a] =
                  IF IsErr(g.err)
                  THEN [NoLogin EXCEPT !.pc = "done",
                                       !.err = Wrap("PKCE generation failed", g.err)]
                  ELSE IF ~listenOK
                  THEN [l EXCEPT !.pc = "done", !.err = Err("net.Listen", <<>>, <<>>, 0)]
                  ELSE IF ~openOK
                  THEN [l EXCEPT !.pc = "done", !.port = p, !.listener = "closed",
                                 !.err = Err("browser.OpenURL", <<>>, <<>>, 0)]
                  ELSE [l EXCEPT !.pc = "srv_wait", !.port = p, !.listener = "open"]]
    /\ UNCHANGED <<oneVars, file, now, wr>>

\* A GET /exchange reaches the listener of login a with the callback of login
\* i, its own or the other's: a's handler sends its result on a's channel, or
\* blocks in the send.
PairRequest ==
  \E a \in Attempts, i \in Attempts, refused \in BOOLEAN :
    /\ logins[a].listener = "open"
    /\ logins[a].served < MaxRequests
    /\ logins[i].pc \notin {"idle"}
    /\ logins[i].port # ""
    /\ LET m == callbackHandler(CallbackFor(i, refused))
       IN  logins' = [logins EXCEPT ![a] =
             IF Len(logins[a].chan) < 1
             THEN [@ EXCEPT !.served = @ + 1, !.chan = Append(@, m)]
             ELSE [@ EXCEPT !.served = @ + 1, !.blocked = Append(@, m)]]
    /\ UNCHANGED <<oneVars, file, now, wr>>

\* A blocked handler's send goes through once the channel has room.
PairUnblock ==
  \E a \in Attempts :
    /\ logins[a].blocked # <<>>
    /\ logins[a].chan = <<>>
    /\ logins' = [logins EXCEPT ![a] =
         [@ EXCEPT !.chan = <<Head(logins[a].blocked)>>, !.blocked = Tail(@)]]
    /\ UNCHANGED <<oneVars, file, now, wr>>

\* The select of login a receives a result from a's channel.
PairReceive ==
  \E a \in Attempts :
    /\ logins[a].pc = "srv_wait"
    /\ logins[a].chan # <<>>
    /\ LET m == Head(logins[a].chan)
           o == ServerOutcome(m, logins[a].st)
       IN  logins' = [logins EXCEPT ![a] =
             IF IsErr(o.err)
             THEN [@ EXCEPT !.chan = Tail(@), !.got = <<m>>, !.pc = "done", !.err = o.err,
                            !.listener = "closed"]
             ELSE [@ EXCEPT !.chan = Tail(@), !.got = <<m>>, !.pc = "exchange"]]
    /\ UNCHANGED <<oneVars, file, now, wr>>

\* The select's timer of login a fires.
PairTimeout ==
  \E a \in Attempts :
    /\ logins[a].pc = "srv_wait"
    /\ logins' = [logins EXCEPT ![a] =
         [@ EXCEPT !.pc = "done", !.err = Err("login timed out", <<>>, <<>>, 0),
                   !.listener = "closed"]]
    /\ UNCHANGED <<oneVars, file, now, wr>>

\* The errors exchangeCode returns over the answers of the token endpoint,
\* nil among them.
ExchangeErrs == { exchangeCode(resp).err : resp \in TokenResponses }

\* exchangeCode of login a: the received code, a's verifier and a's redirect
\* target are posted; the answer decides.
PairExchange ==
  \E a \in Attempts, e \in ExchangeErrs :
    /\ logins[a].pc = "exchange"
    /\ logins' = [logins EXCEPT ![a] =
         [@ EXCEPT !.pc = "done", !.listener = "closed",
                   !.err = e,
                   !.posts = Append(@, TokenRequest(logins[a].got[1].code, logins[a].verifier,
                                                   <<localRedirectURI, logins[a].port>>))]]
    /\ UNCHANGED <<oneVars, file, now, wr>>

PairNext ==
  \/ PairStart
  \/ PairRequest
  \/ PairUnblock
  \/ PairReceive
  \/ PairTimeout
  \/ PairExchange

PairSpec == Init /\ [][PairNext]_vars

\* ------------------------------------------------- the token store over time

\* The token sets an earlier run of the program has saved.
StoredBefore ==
  { TokenSetFromJWT(<<"h", ".", p, ".", "sig">>).tokens[1] : p \in {"pA", "pB"} }

\* The token file a run finds: none, or one an earlier run saved, with the mode
\* it was created with or one its owner has widened since.
InitialFiles ==
  { <<>> } \cup { << [data |-> <<MarshalTokenSet(t)>>, mode |-> m] >> :
                   t \in StoredBefore, m \in {OwnerOnly, WorldReadable} }

\* A run of a token command, or of a login whose acquirer has just handed the
\* callback's code to the exchanger, at second 0 of the clock.
StoreInit ==
  /\ file \in InitialFiles
  /\ now = 0
  /\ out = NoOutput
  /\ exch = NoExch
  /\ oserr = "nil"
  /\ wr = <<>>
  /\ logins = NoLogins
  /\ posts = <<>>
  /\ result = NoResult
  /\ httpReqs = <<>>
  /\ authResp = NoResp
  /\ listener = "none"
  /\ codeChan = <<>>
  /\ handlers = <<>>
  /\ served = 0
  /\ shutdown = "none"
  /\ \/ /\ pc = "idle"
        /\ att = NoAttempt
        /\ pendingCode = <<>>
        /\ browser = 0
        /\ obs = NoObs
     \/ \E v \in RandBuffers, s \in States :
          /\ pc = "exchange"
          /\ att = LoginBegin(TRUE, v, s).att
          /\ pendingCode = <<"c1">>
          /\ browser = 1
          /\ obs = Looked([code |-> <<"c1">>, state |-> Str(s), error |-> <<>>], 0, s, NoObs)

StoreNext ==
  \/ Tick
  \/ Exchange
  \/ AuthTokenCmd
  \/ AuthStatusCmd
  \/ AuthClearCmd
  \/ AuthRefreshCmd
  \/ UsageError
  \/ ContextError
  \/ SaveTokensOpen
  \/ SaveTokensWrite
  \/ SaveTokensKilled
  \/ Exit

StoreSpec == StoreInit /\ [][StoreNext]_vars

\* -------------------------------------------------------------- properties

RefreshVariants == {"refresh", "refresh_cookies"}

\* Refresh has inspected an HTTP response of the authorization endpoint.
RefreshInspected == att.variant \in RefreshVariants /\ authResp.kind = "http"

\* C1: in the manual-paste Login, loginWithLocalServer and Refresh, a callback
\* response whose state differs from the attempt's state (a missing state
\* included, with or without a code) is rejected: the attempt has ended with an
\* error, returned no token set and sent nothing to the token endpoint.
C1_StateMismatchRejected ==
  (/\ att.variant \in {"paste", "server"} \cup RefreshVariants
   /\ obs.seen
   /\ obs.state # Str(att.st))
  => /\ pc = "done"
     /\ IsErr(result.err)
     /\ result.tokens = <<>>
     /\ posts = <<>>

\* A pasted URL with a code and another state, with no provider error, was
\* rejected by the state comparison.
C1_Witness ==
  /\ att.variant = "paste"
  /\ obs.seen
  /\ obs.code = <<"c1">>
  /\ obs.error = <<>>
  /\ obs.state # <<>>
  /\ obs.state # Str(att.st)
  /\ result.err.kind = "state mismatch: possible CSRF attack"

\* C2: once an acquirer, the polling one and its paste fallback included, has
\* seen a callback that carries a code with another state than the attempt's,
\* the attempt has ended with an error: it does not go on waiting.
C2_MismatchAborts ==
  obs.mismatch => (pc = "done" /\ IsErr(result.err))

\* C3 as stated: whenever Refresh got a redirect whose Location contains
\* error=login_required, it ended with a failure that names the interactive
\* login and exchanged nothing.
C3_LoginRequiredAlwaysExpired ==
  (/\ RefreshInspected
   /\ authResp.status \in RedirectStatuses
   /\ authResp.location.hasLoginRequired)
  => /\ pc = "done"
     /\ InstructsLogin(result.err)
     /\ posts = <<>>

\* C3: when Refresh got a redirect whose Location contains error=login_required
\* and from which extractFragmentParams obtains no code (the fragment does not
\* parse, has a non-empty error parameter or has no code), Refresh ended with
\* the failure that names the interactive login, and exchanged nothing.
C3_LoginRequiredWithoutCodeExpired ==
  (/\ RefreshInspected
   /\ authResp.status \in RedirectStatuses
   /\ authResp.location.hasLoginRequired
   /\ IsErr(authResp.location.r.err))
  => /\ pc = "done"
     /\ InstructsLogin(result.err)
     /\ result.tokens = <<>>
     /\ posts = <<>>

\* The 302 whose fragment is error=login_required ended as session expired.
C3_Witness ==
  /\ att.variant = "refresh"
  /\ authResp.status = StatusFound
  /\ obs.error = <<"login_required">>
  /\ result.err.kind = ErrSessionExpired
  /\ posts = <<>>

\* C4: when Refresh got a response that is no redirect, or a redirect whose
\* Location reports login_required or interaction_required, it ended with a
\* failure that names the interactive login, after one request and no exchange.
C4_InteractionRequiredExpired ==
  (/\ RefreshInspected
   /\ \/ authResp.status \notin RedirectStatuses
      \/ obs.error \in {<<"login_required">>, <<"interaction_required">>})
  => /\ pc = "done"
     /\ InstructsLogin(result.err)
     /\ posts = <<>>
     /\ Len(httpReqs) = 1

\* C5: every authorization request of Refresh has session cookies attached.
C5_RequestsCarryCookies ==
  \A i \in 1..Len(httpReqs) :
    httpReqs[i].target = "auth" => httpReqs[i].cookies # {}

\* C6: a Refresh call never opens a browser, whatever its outcome.
C6_RefreshOpensNoBrowser ==
  att.variant \in RefreshVariants => browser = 0

\* A Refresh that failed as session expired, or on the state comparison, and
\* opened no browser.
C6_Witness ==
  /\ att.variant = "refresh"
  /\ pc = "done"
  /\ result.err.kind \in {ErrSessionExpired, "state mismatch during refresh"}
  /\ browser = 0

\* C7: Refresh does not follow redirects: it sends at most one request, to the
\* authorization endpoint, exactly one once it has a response, and the response
\* it inspects is the one that carries the Location.
C7_RefreshDoesNotFollow ==
  att.variant \in RefreshVariants
  => /\ Len(httpReqs) <= 1
     /\ \A i \in 1..Len(httpReqs) : httpReqs[i].target = "auth"
     /\ (authResp.kind # "none" => Len(httpReqs) = 1)
     /\ (pc = "refresh_wait" => Len(httpReqs) = 1)

\* Refresh got a redirect with a Location and sent one request.
C7_Witness ==
  /\ att.variant = "refresh"
  /\ authResp.status \in {StatusFound, StatusSeeOther}
  /\ ~authResp.location.empty
  /\ Len(httpReqs) = 1

\* The exchange of this attempt, begun or done, for the code given.
ExchangesCode(c) ==
  \/ pc = "exchange" /\ pendingCode = c /\ posts = <<>>
  \/ pc = "done" /\ posts = <<TokenRequest(c, att.verifier, att.redirect)>>

\* C8 as stated: a response of Refresh with any 3xx status whose Location carries
\* a code and the attempt's state goes to the exchanger with that code and the
\* attempt's verifier.
C8_AnyRedirectExchanges ==
  (/\ RefreshInspected
   /\ authResp.status \in 300..399
   /\ obs.code # <<>>
   /\ obs.state = Str(att.st))
  => ExchangesCode(obs.code)

\* C8: a 302 or 303 response of Refresh from whose Location
\* extractFragmentParams obtains a code (the fragment parses and has no
\* non-empty error parameter) and the attempt's state goes to the exchanger with
\* that code and the attempt's verifier.
C8_FoundOrSeeOtherExchanges ==
  (/\ RefreshInspected
   /\ authResp.status \in {StatusFound, StatusSeeOther}
   /\ ~IsErr(authResp.location.r.err)
   /\ authResp.location.r.state = Str(att.st))
  => ExchangesCode(authResp.location.r.code)

\* A 303 with code and state was exchanged and gave a token set.
C8_Witness ==
  /\ att.variant = "refresh"
  /\ authResp.status = StatusSeeOther
  /\ pc = "done"
  /\ posts = <<TokenRequest(<<"c1">>, att.verifier, realRedirectURI)>>
  /\ result.tokens # <<>>

\* C9: one attempt sends at most one POST to the token endpoint, so no verifier
\* is sent twice.
C9_AtMostOnePost ==
  Len(posts) <= 1

\* C10: the expiry of every token set returned, and of the one in the token
\* file, is the exp claim of its own access token, in whole seconds.
C10_ExpiryIsExpClaim ==
  /\ result.tokens # <<>> =>
       LET t == result.tokens[1]
           c == ParseJWT(t.AccessToken)
       IN  ~IsErr(c.err) /\ t.ExpiresAt = TimeUnix(c.claims[1].Exp, 0)
  /\ file # <<>> =>
       LET c == ParseJWT(file[1].data[1].accessToken)
       IN  /\ ~IsErr(c.err)
           /\ file[1].data[1].expiresAt.sec = c.claims[1].Exp
           /\ file[1].data[1].expiresAt.nsec = 0

\* An exchange returned a token set whose access token has exp 33.
C10_Witness ==
  /\ Len(posts) = 1
  /\ result.tokens # <<>>
  /\ result.tokens[1].ExpiresAt = TimeUnix(33, 0)
  /\ file # <<>>

\* ------------------------------------------------ properties of the exchange

\* The token endpoint's answer decoded to a provider error with a code.
StructuredError(v) == v.json /\ v.error # <<>>

\* C18: when the token endpoint answered with a status other than 200,
\* exchangeCode returned an error and no token set; the message carries the
\* error code and the error_description of a body that decoded to a provider
\* error, and the status and the body as text otherwise; Login and Refresh
\* return it as it is, but for the polling login, which falls back to the prompt.
C18_NonSuccessTokenResponse ==
  (exch.resp.kind = "http" /\ exch.resp.status # StatusOK)
  => /\ IsErr(exch.ret.err)
     /\ exch.ret.tokens = <<>>
     /\ StructuredError(exch.resp) =>
          /\ exch.ret.err.kind = "token exchange failed: %s - %s"
          /\ exch.ret.err.a = exch.resp.error
          /\ exch.ret.err.b = exch.resp.error_description
     /\ ~StructuredError(exch.resp) =>
          /\ exch.ret.err.kind = "token exchange failed with status %d: %s"
          /\ exch.ret.err.n = exch.resp.status
          /\ exch.ret.err.a = Str(exch.resp.raw)
     /\ (pc = "done" /\ att.variant # "poll") => result = exch.ret

\* The token endpoint answered 400 with invalid_grant / Code not valid, and
\* Login returned an error that carries both.
C18_Witness ==
  /\ pc = "done"
  /\ exch.resp.status = 400
  /\ exch.resp.error = <<"invalid_grant">>
  /\ exch.resp.error_description = <<"Code not valid">>
  /\ result.tokens = <<>>
  /\ result.err.a = <<"invalid_grant">>
  /\ result.err.b = <<"Code not valid">>

\* The full callback URL whose fragment is the parameters ps.
FullURL(ps) == <<realRedirectURI, "#">> \o JoinAmp(ps)

\* The failures of extractFragmentParams, each of which says what is wrong.
FragmentFailures == {"invalid URL fragment", "auth error", "no auth code found in URL"}

\* For every parameter list, extractFragmentParams returns the same for the
\* bare fragment and for the full URL with that fragment; a fragment with code
\* and state (that parses and reports no error) is accepted with that code and
\* state; one with no code, or an empty one, is rejected with one of the
\* function's failures.
FullAndBareAgree ==
  \A ps \in ParamSeqs :
    LET bare == extractFragmentParams(JoinAmp(ps))
        full == extractFragmentParams(FullURL(ps))
        m == ParseQuery(JoinAmp(ps))
    IN  /\ full = bare
        /\ (~m.err /\ Get(m.m, "code") # <<>> /\ Get(m.m, "error") = <<>>) =>
             /\ ~IsErr(full.err)
             /\ full.code = Get(m.m, "code")
             /\ full.state = Get(m.m, "state")
        /\ Get(m.m, "code") = <<>> =>
             /\ full.err.kind \in FragmentFailures
             /\ full.code = <<>>

\* C19: extractFragmentParams treats the full URL and the bare fragment alike
\* and rejects what has no code (FullAndBareAgree, over every parameter list),
\* and the paste login that read a callback without a code has ended with an
\* error and sent nothing.
C19_FullAndBareFragment ==
  /\ FullAndBareAgree
  /\ (att.variant = "paste" /\ obs.seen /\ obs.code = <<>>) =>
       /\ pc = "done"
       /\ IsErr(result.err)
       /\ posts = <<>>

\* The bare fragment and the full URL with code c1 and the attempt's state are
\* both lines the user may paste, and the paste login has accepted that code
\* and state.
C19_Witness ==
  /\ att.variant = "paste"
  /\ pc = "exchange"
  /\ pendingCode = <<"c1">>
  /\ obs.state = Str(att.st)
  /\ \E ps \in ParamSeqs :
       /\ JoinAmp(ps) = <<"code", "=", "c1", "&", "state", "=">> \o Str(att.st)
       /\ JoinAmp(ps) \in StdinLines
       /\ FullURL(ps) \in StdinLines

\* ------------------------------------------- properties of the token store

\* time.Now()
Clock == TimeUnix(now, 0)

\* The exp claim of a token set's access token.
ExpClaim(t) == ParseJWT(t.AccessToken).claims[1].Exp

\* This step is an exchange that returned a token set.
Exchanged == pc = "exchange" /\ pc' = "done" /\ ~IsErr(result'.err)

\* What exchangeCode returns for the token responses with a positive expires_in.
PositiveLifetimeResults ==
  { exchangeCode(resp) : resp \in { r \in TokenResponses : r.kind = "http" /\ r.body.expires_in > 0 } }

\* C11 as stated: the token set of an exchange whose token response had a
\* positive expires_in is not expired at the instant the exchange returns, and
\* a token set held is expired at every instant after its access token's exp.
C11_FreshWhenLifetimePositive ==
  /\ [][(Exchanged /\ result' \in PositiveLifetimeResults)
        => ~IsExpired(result'.tokens[1], Clock')]_vars
  /\ [](result.tokens # <<>> =>
          (now > ExpClaim(result.tokens[1]) => IsExpired(result.tokens[1], Clock)))

\* C11: the token set of an exchange is not expired at the instant the
\* exchange returns exactly when its access token's exp claim is not before the
\* wall clock, whatever expires_in the token response gave; and a token set
\* held is expired at every instant after its access token's exp, and at none
\* up to it.
C11_FreshWhenExpNotPassed ==
  /\ [][Exchanged
        => (~IsExpired(result'.tokens[1], Clock') <=> ExpClaim(result'.tokens[1]) >= now')]_vars
  /\ [](result.tokens # <<>> =>
          (now > ExpClaim(result.tokens[1]) <=> IsExpired(result.tokens[1], Clock)))

\* An exchange returned a token set with exp 33 that is not expired at second
\* 33 and has come from a response with a positive expires_in.
C11_Witness ==
  /\ pc = "done"
  /\ Len(posts) = 1
  /\ result \in PositiveLifetimeResults
  /\ result.tokens # <<>>
  /\ ExpClaim(result.tokens[1]) = 33
  /\ now = 33
  /\ ~IsExpired(result.tokens[1], Clock)

\* The token sets at hand: the one the command holds, the one in the file.
Held ==
  { result.tokens[i] : i \in 1..Len(result.tokens) }
  \cup { LoadTokens(file).tokens[i] : i \in 1..Len(LoadTokens(file).tokens) }

\* C12: at every clock value and for every token set at hand, NeedsRefresh at
\* that instant equals IsExpired 30 seconds later, and it is true exactly when
\* fewer than 30 seconds remain before the expiry.
C12_NeedsRefreshIsExpiredIn30s ==
  \A t \in Held :
    /\ NeedsRefresh(t, Clock) <=> IsExpired(t, TimeUnix(now + 30, 0))
    /\ NeedsRefresh(t, Clock) <=> t.ExpiresAt.sec - now < 30

\* A token set with expiry 33 needs no refresh at second 3 ...
C12_WitnessBefore ==
  \E t \in Held : t.ExpiresAt = TimeUnix(33, 0) /\ now = 3 /\ ~NeedsRefresh(t, Clock)

\* ... and needs one at second 4, 29 seconds before it is expired.
C12_Witness ==
  \E t \in Held :
    /\ t.ExpiresAt = TimeUnix(33, 0)
    /\ now = 4
    /\ NeedsRefresh(t, Clock)
    /\ ~IsExpired(t, Clock)

\* This step is a command that ends having saved the token set it returns (the
\* token and login commands emit their payload only after SaveTokens succeeded).
Saved == pc # "done" /\ pc' = "done" /\ out'.text = "Authenticated as"

\* The fields of two token sets are identical, the expiry to the second.
SameFields(t, u) ==
  /\ t.AccessToken = u.AccessToken
  /\ t.IDToken = u.IDToken
  /\ t.Sub = u.Sub
  /\ t.Kundenkontoid = u.Kundenkontoid
  /\ t.Username = u.Username
  /\ t.ExpiresAt.sec = u.ExpiresAt.sec

\* No byte of the access token is invalid UTF-8 (the other strings of a token
\* set come out of encoding/json, which leaves none).
ValidUTF8(t) == \A i \in 1..Len(t.AccessToken) : t.AccessToken[i] # InvalidUTF8Atom

\* C13 as stated: LoadTokens right after a command's SaveTokens returns a token
\* set whose fields are those of the token set saved, the expiry to the second.
C13_RoundTripAlways ==
  [][Saved =>
       LET l == LoadTokens(file')
       IN  /\ ~IsErr(l.err)
           /\ l.tokens # <<>>
           /\ SameFields(l.tokens[1], result'.tokens[1])]_vars

\* C13: LoadTokens right after a command's SaveTokens returns a token set; when
\* the strings of the token set saved are valid UTF-8 its fields are those of
\* the token set saved, the expiry to the nanosecond; in every case all fields
\* but the access token are, and the access token is the one saved with U+FFFD
\* in the place of every invalid byte.
C13_RoundTripValidUTF8 ==
  [][Saved =>
       LET l == LoadTokens(file')
       IN  /\ ~IsErr(l.err)
           /\ l.tokens # <<>>
           /\ ValidUTF8(result'.tokens[1]) =>
                /\ SameFields(l.tokens[1], result'.tokens[1])
                /\ l.tokens[1].ExpiresAt = result'.tokens[1].ExpiresAt
           /\ SameFields(l.tokens[1],
                         [result'.tokens[1] EXCEPT !.AccessToken = JSONString(@)])]_vars

\* A login saved a token set with an ID token and expiry 33, and LoadTokens
\* returns that token set.
C13_Witness ==
  /\ pc = "done"
  /\ Len(posts) = 1
  /\ out.text = "Authenticated as"
  /\ result.tokens # <<>>
  /\ result.tokens[1].IDToken = "id1"
  /\ result.tokens[1].ExpiresAt = TimeUnix(33, 0)
  /\ LoadTokens(file) = result

\* This step is the clear command.
Cleared == pc = "idle" /\ att'.variant = "clear"

\* C14: the clear command succeeds and leaves no token file, on a store that
\* holds none too (os.Remove reports the missing file, ClearTokens returns
\* nil); so a ClearTokens that follows finds none and succeeds again.
C14_ClearIdempotent ==
  [][Cleared =>
       /\ ~IsErr(result'.err)
       /\ out'.text = "Credentials cleared."
       /\ file' = <<>>
       /\ ClearTokens(file') = [file |-> <<>>, err |-> NoErr]]_vars

\* The clear command found no token file and ended with success.
C14_Witness ==
  /\ pc = "done"
  /\ att.variant = "clear"
  /\ oserr = "ErrNotExist"
  /\ ~IsErr(result.err)
  /\ out.text = "Credentials cleared."
  /\ file = <<>>

\* This step is the status command.
StatusRead == pc = "idle" /\ att'.variant = "status"

\* C15: when the token file holds a token set, the status command's
\* LoadTokens returns it (what it returns marshals to the file's bytes) with no
\* error; when there is no file, never saved or cleared since, LoadTokens
\* returns no token set and no error, and the command emits "not
\* authenticated" as its output and returns no error.
C15_LoadStoredOrNone ==
  [][StatusRead =>
       /\ (file # <<>> /\ Len(file[1].data) = 1) =>
            /\ ~IsErr(result'.err)
            /\ Len(result'.tokens) = 1
            /\ MarshalTokenSet(result'.tokens[1]) = file[1].data[1]
            /\ out'.emitted
            /\ out'.username = file[1].data[1].username
       /\ file = <<>> =>
            /\ result' = [tokens |-> <<>>, err |-> NoErr]
            /\ out'.emitted
            /\ out'.text = "Not authenticated."
            /\ ~out'.authenticated]_vars

\* The status command found no token file and reported "not authenticated"
\* without an error.
C15_Witness ==
  /\ pc = "done"
  /\ att.variant = "status"
  /\ oserr = "ErrNotExist"
  /\ result = [tokens |-> <<>>, err |-> NoErr]
  /\ out.emitted
  /\ out.text = "Not authenticated."

\* The status command loaded the token set with expiry 33 from the file.
C15_WitnessStored ==
  /\ pc = "done"
  /\ att.variant = "status"
  /\ oserr = "nil"
  /\ result.tokens # <<>>
  /\ result.tokens[1].ExpiresAt = TimeUnix(33, 0)
  /\ out.text = "Token: valid"

\* C16: at every instant, while a second process saves or after it was
\* interrupted in a save, LoadTokens finds no file or a whole token set: it
\* never fails on the file's bytes, and no status command has failed on them.
C16_SaveAtomic ==
  /\ ~IsErr(LoadTokens(file).err)
  /\ att.variant = "status" => ~IsErr(result.err)

\* C17: after every SaveTokens of a command that succeeded, the token file's
\* mode is owner read/write only, whatever file was there before.
C17_SavedOwnerOnly ==
  [][Saved => (file' # <<>> /\ file'[1].mode = OwnerOnly)]_vars

\* ------------------------------------------- properties of the callback wait

\* The callback last looked at carried a non-empty error parameter.
ErrorReceived == obs.seen /\ obs.error # <<>>

\* C20: once an acquirer has looked at a callback that carries an error
\* parameter, the attempt has ended: it returned the provider's error with the
\* error code, posted no token request, and does not go on waiting.
C20_ErrorAborts ==
  (att.variant \in {"poll", "server"} /\ ErrorReceived)
    => /\ pc = "done"
       /\ result.err.kind = "auth error"
       /\ result.err.a = obs.error
       /\ posts = <<>>

\* The /exchange handler answers every query with a non-empty error parameter
\* by the provider's error, code and description, a code present or not.
HandlerReportsError ==
  \A ps \in ParamSeqs :
    LET q == ParseQuery(JoinAmp(ps)).m
        m == callbackHandler(JoinAmp(ps))
    IN  Get(q, "error") # <<>>
          => /\ m.err = Err("auth error", Get(q, "error"), Get(q, "error_description"), 0)
             /\ m.code = <<>>

\* C20 for the bridge acquirer alone: the select returns the handler's error,
\* the listener is shut down and nothing is exchanged.
C20_BridgeErrorAborts ==
  /\ HandlerReportsError
  /\ (att.variant = "server" /\ ErrorReceived)
       => /\ pc = "done"
          /\ result.err.kind = "auth error"
          /\ result.err.a = obs.error
          /\ posts = <<>>
          /\ listener = "closed"

\* The bridge acquirer ended on the provider's error, with its description.
C20_BridgeWitness ==
  /\ att.variant = "server"
  /\ ErrorReceived
  /\ pc = "done"
  /\ result.err = Err("auth error", <<"access_denied">>, <<"d1">>, 0)

\* The polling loop goes on after a tab URL with the attempt's state and the
\* provider's error.
C20_PollStillWaiting ==
  /\ att.variant = "poll"
  /\ ErrorReceived
  /\ Str(att.st) = obs.state
  /\ pc = "poll"

\* --------------------------------------------- properties of the bridge wait

\* A step of the bridge login that takes a result off the handoff channel.
Accepts == pc = "srv_wait" /\ codeChan # <<>> /\ codeChan' = Tail(codeChan) /\ obs' # obs

\* The wait of the bridge login is over.
WaitOver == att.variant = "server" /\ att.acquirer = "server" /\ pc \in {"exchange", "done"}

\* C21: across every interleaving of /exchange requests and the timer, one
\* bridge login takes at most one result off the handoff channel, the wait
\* ends with that step, and the attempt acts on that result only: a wait that
\* timed out accepted nothing, a wait that accepted a result did not time out,
\* and the code exchanged is the code of the accepted result.
C21_OneResultAccepted ==
  /\ [][Accepts => /\ ~obs.seen
                   /\ pc' # "srv_wait"
                   /\ pendingCode' = ServerOutcome(Head(codeChan), att.st).code
                   /\ IsErr(ServerOutcome(Head(codeChan), att.st).err)
                        => result' = Failed(Head(codeChan).err) \/
                           result'.err.kind = "state mismatch"]_vars
  /\ [][(pc = "srv_wait" /\ pc' # "srv_wait") => (Accepts \/ result'.err.kind = "login timed out")]_vars
  /\ [](WaitOver =>
          /\ result.err.kind = "login timed out" => ~obs.seen
          /\ pc = "exchange" => (obs.seen /\ pendingCode = obs.code /\ obs.state = Str(att.st))
          /\ \A i \in 1..Len(posts) : obs.seen /\ posts[i].code = obs.code)

\* A bridge login accepted a result and exchanged its code while another
\* result, sent by a later /exchange request, is left on the channel.
C21_Witness ==
  /\ att.variant = "server"
  /\ pc = "done"
  /\ obs.seen
  /\ Len(posts) = 1
  /\ posts[1].code = obs.code
  /\ codeChan # <<>>
  /\ served = MaxRequests

\* loginWithLocalServer got past net.Listen: the attempt's redirect target is
\* the listener's loopback address.
Bound == att.variant = "server" /\ att.redirect = localRedirectURI

\* C22: whichever way a bridge login returns once its listener is bound
\* (callback exchanged, provider error, state mismatch, timeout, browser-open
\* failure, exchange failure), the listener is closed and srv.Shutdown has been
\* called; the listener is open only while the attempt waits or exchanges; and
\* a Shutdown that waits for handlers returns, at the latest by its deadline.
C22_ListenerTornDown ==
  /\ []((Bound /\ pc = "done") => (listener = "closed" /\ shutdown # "none"))
  /\ [](listener = "open" => (Bound /\ pc \in {"srv_wait", "exchange"}))
  /\ (shutdown = "waiting") ~> (shutdown \in {"nil", "deadline"})

\* The wait timed out while a handler was blocked in its send on the full
\* channel: Shutdown could not finish and returned at its deadline.
C22_Witness ==
  /\ Bound
  /\ pc = "done"
  /\ result.err.kind = "login timed out"
  /\ listener = "closed"
  /\ handlers # <<>>
  /\ codeChan # <<>>
  /\ shutdown = "deadline"

\* ------------------------------------------- properties of concurrent logins

\* Both logins got past their random draws.
BothDrew == \A a \in Attempts : logins[a].pc # "idle" /\ logins[a].verifier # ""

\* Login a posted the code issued for the other login.
CrossExchanged(a) ==
  \E i \in 1..Len(logins[a].posts) : logins[a].posts[i].code = Str(CodeFor(Other(a)))

\* C23: two bridge logins of one process have each their own verifier, state,
\* listener port and channel, and neither posts to the token endpoint a code
\* that was issued for the other.
C23_NoCrossDelivery ==
  /\ BothDrew =>
       /\ logins["A"].verifier # logins["B"].verifier
       /\ logins["A"].st # logins["B"].st
  /\ (logins["A"].listener = "open" /\ logins["B"].listener = "open")
       => logins["A"].port # logins["B"].port
  /\ \A a \in Attempts : ~CrossExchanged(a)

\* C23 where the two states differ: a result that carries another state than
\* the login's own is rejected as a state mismatch, and no code of the other
\* login is posted.
C23_IsolatedWhenStatesDiffer ==
  \A a \in Attempts :
    /\ (logins[a].got # <<>> /\ ~IsErr(logins[a].got[1].err)
          /\ logins[a].got[1].state # Str(logins[a].st))
         => (logins[a].pc = "done" /\ logins[a].err.kind = "state mismatch"
             /\ logins[a].posts = <<>>)
    /\ (BothDrew /\ logins["A"].st # logins["B"].st) => ~CrossExchanged(a)

\* The other login's callback reached this login and was rejected.
C23_RejectedWitness ==
  /\ logins["B"].got # <<>>
  /\ logins["B"].got[1].code = Str(CodeFor("A"))
  /\ logins["B"].got[1].state = Str(logins["A"].st)
  /\ logins["A"].st # logins["B"].st
  /\ logins["B"].err.kind = "state mismatch"

\* rand.Read failed in both logins' randomString: both carry the same state,
\* and B has posted the code issued for A.
C23_CrossWitness ==
  /\ logins["A"].st = ZeroState
  /\ logins["B"].st = ZeroState
  /\ CrossExchanged("B")

\* ------------------------------------------------- properties of exit codes

\* A command or the command line's parsing is done and the process is about
\* to exit.
Exiting == pc = "done" /\ att.variant \in Commands \cup {"usage", "context"}

\* The failure is a missing or an expired token: the command found no stored
\* token set or an expired one, or its error is the expired session.
AuthRequired ==
  \/ att.variant = "status" /\ out.text \in {"Not authenticated.", "Token: expired"}
  \/ RunErr.kind = ErrSessionExpired

\* C24: the process exits 0 when its command succeeded, and it exits 2 only
\* when the failure is a missing or an expired token: no generic error, no
\* network error and no error of the command line ends in 2.
C24_ExitCodes ==
  Exiting =>
    /\ (att.variant \in Commands /\ ~IsErr(RunErr)) => run = {0}
    /\ 2 \in run => AuthRequired

\* What the code does hold to: a command that succeeded exits 0, a command
\* that failed exits 1 or 3, and 2 is the exit code of a command line that did
\* not parse and of nothing else, a missing or an expired token included.
C24_TwoIsUsage ==
  Exiting =>
    /\ (att.variant \in Commands /\ ~IsErr(RunErr)) => run = {0}
    /\ (att.variant \in Commands /\ IsErr(RunErr)) => (run \subseteq {1, 3} /\ run # {})
    /\ 2 \in run <=> att.variant = "usage"
    /\ AuthRequired => run = {0}

\* The command line did not parse and the process exits with 2.
C24_UsageWitness ==
  /\ pc = "done"
  /\ att.variant = "usage"
  /\ run = {2}
  /\ ~AuthRequired

\* The status command found an expired token and the process exits with 0.
C24_ExpiredWitness ==
  /\ pc = "done"
  /\ att.variant = "status"
  /\ out.text = "Token: expired"
  /\ run = {0}

\* ------------------------------------------ properties of Refresh's outcomes

\* Refresh of internal/auth has returned.
RefreshReturned == att.variant = "refresh" /\ pc = "done"

\* The failures Refresh names, by message.
RefreshFailures ==
  {"PKCE generation failed", "refresh request failed", ErrExpectedRedirect,
   "refresh failed: no redirect location", ErrSessionExpired, "refresh failed",
   "state mismatch during refresh"}
    \cup ({ e.kind : e \in ExchangeErrs } \ {"nil"})

\* The answer Refresh reports as the expired session: a 302 or 303 whose
\* Location yields no code and contains error=login_required.
AnswerSaysLoginRequired ==
  /\ authResp.kind = "http"
  /\ authResp.status \in {StatusFound, StatusSeeOther}
  /\ ~authResp.location.empty
  /\ IsErr(authResp.location.r.err)
  /\ authResp.location.hasLoginRequired

C25_WitnessTokens ==
  /\ RefreshReturned
  /\ result.tokens # <<>>
  /\ Len(posts) = 1

\* --------------------------------------- properties of the random source

\* The attempt's state is what randomString returns when rand.Read failed.
StateDrawFailed == att.st = ZeroState

\* The authorization URL the attempt built carries this state.
URLCarriesState(s) ==
  \E i \in 1..Len(att.authURL.query) : att.authURL.query[i] = <<"state", Str(s)>>

\* C26: when the random source fails in a Login or Refresh attempt, for the
\* PKCE verifier or for the state, the attempt has returned a failure, and it
\* has built no authorization URL, opened no browser and sent no request.
C26_RandomFailureReturned ==
  (StateDrawFailed \/ result.err.w = "rand.Read")
    => /\ pc = "done"
       /\ IsErr(result.err)
       /\ att.authURL.query = <<>>
       /\ browser = 0
       /\ httpReqs = <<>>

\* What holds of the verifier's half: a failure of rand.Read in generatePKCE
\* ends the attempt with "PKCE generation failed" before anything is built.
C26_PKCEFailureReturned ==
  result.err.w = "rand.Read"
    => /\ pc = "done"
       /\ result.err.kind = "PKCE generation failed"
       /\ att.authURL.query = <<>>
       /\ browser = 0
       /\ httpReqs = <<>>

\* rand.Read failed in randomString and the attempt waits for its callback
\* with the predictable state in the authorization URL it opened.
C26_PredictableState ==
  /\ StateDrawFailed
  /\ URLCarriesState(ZeroState)
  /\ pc \in {"paste_wait", "poll", "srv_wait", "refresh_wait"}
  /\ browser + Len(httpReqs) > 0
  /\ ~IsErr(result.err)

\* generatePKCE failed and the attempt returned.
C26_PKCEWitness ==
  /\ pc = "done"
  /\ result.err.kind = "PKCE generation failed"
  /\ result.err.w = "rand.Read"

\* ------------------------------------- properties of the store's lifecycle

\* This step ends a login or a silent refresh with a new token set and no
\* error of the store.
Obtained ==
  /\ pc = "exchange"
  /\ pc' = "done"
  /\ att.variant \in {"paste", "poll", "server", "refresh", "refresh_cookies"}
  /\ result'.tokens # <<>>
  /\ oserr' = "nil"

\* LoadTokens on file f returns exactly the token set t.
LoadsExactly(f, t) ==
  LET l == LoadTokens(f)
  IN  /\ ~IsErr(l.err)
      /\ l.tokens # <<>>
      /\ SameFields(l.tokens[1], t)
      /\ l.tokens[1].ExpiresAt = t.ExpiresAt

\* C27: right after a login or a silent refresh that obtained a new token set,
\* LoadTokens returns exactly that token set, whatever was stored before; and
\* right after a clear command that succeeded it returns no credentials.
C27_StoreFollowsCommands ==
  [][/\ Obtained => LoadsExactly(file', result'.tokens[1])
     /\ (Cleared /\ ~IsErr(result'.err))
          => LoadTokens(file') = [tokens |-> <<>>, err |-> NoErr]]_vars

\* What holds of C27: the login command and the clear command; the token set
\* of a silent refresh is stored by nobody.
C27_LoginAndClear ==
  [][/\ (Obtained /\ SavedByCommand(att.variant)) => LoadsExactly(file', result'.tokens[1])
     /\ (Obtained /\ ~SavedByCommand(att.variant)) => file' = file
     /\ (Cleared /\ ~IsErr(result'.err))
          => LoadTokens(file') = [tokens |-> <<>>, err |-> NoErr]]_vars

\* A silent refresh returned a new token set and the store does not hold it.
C27_RefreshNotStored ==
  /\ att.variant = "refresh"
  /\ pc = "done"
  /\ result.tokens # <<>>
  /\ ~IsErr(result.err)
  /\ LoadTokens(file).tokens # result.tokens

\* A login replaced a stored token set by another: the store held the token
\* set with expiry 33 and an ID token, the login obtained one with neither.
C27_OverwriteWitness ==
  /\ att.variant = "paste"
  /\ pc = "done"
  /\ out.text = "Authenticated as"
  /\ result.tokens # <<>>
  /\ result.tokens[1].IDToken = ""
  /\ result.tokens[1].ExpiresAt # TimeUnix(33, 0)
  /\ LoadTokens(file) = result

\* -------------------------------------------- properties of the control flow

LoginVariants == {"paste", "poll", "server"}

\* This step posts to the token endpoint.
Posts == Len(posts') > Len(posts)

\* This step returns a token set from a login.
ReturnsTokens == att.variant \in LoginVariants /\ result.tokens = <<>> /\ result'.tokens # <<>>

\* C28: in a login the token endpoint is contacted only after the attempt drew
\* its verifier and state, built its authorization URL with them, opened the
\* browser, and acquired a callback whose state is the attempt's and whose
\* code is the one posted; a token set is returned only in the step that
\* posted, from an answer with status 200, and its claims are those parsed from
\* that answer's access token; and the token file is written only in a step
\* that returned a token set, with that token set.
C28_ControlFlow ==
  [][/\ (Posts /\ att.variant \in LoginVariants)
          => /\ pc = "exchange"
             /\ att.verifier # ""
             /\ att.authURL.query # <<>>
             /\ URLCarriesState(att.st)
             /\ browser >= 1
             /\ obs.seen
             /\ obs.error = <<>>
             /\ pendingCode # <<>>
             /\ obs.code = pendingCode
             /\ obs.state = Str(att.st)
             /\ posts' = Append(posts, TokenRequest(pendingCode, att.verifier, att.redirect))
     /\ ReturnsTokens
          => /\ Posts
             /\ exch'.resp.kind = "http"
             /\ exch'.resp.status = StatusOK
             /\ exch'.resp.json
             /\ exch'.ret = result'
             /\ LET t == TokenSetFromJWT(result'.tokens[1].AccessToken)
                IN  /\ ~IsErr(t.err)
                    /\ result'.tokens[1] = [t.tokens[1] EXCEPT !.IDToken = result'.tokens[1].IDToken]
     /\ (file' # file /\ att.variant \in LoginVariants)
          => /\ ReturnsTokens
             /\ file' = SaveTokens(file, result'.tokens[1])]_vars

\* A bridge login went through all stages: it posted the code of the callback
\* it accepted, got a token set and stored it.
C28_Witness ==
  /\ att.variant = "server"
  /\ pc = "done"
  /\ obs.seen
  /\ obs.state = Str(att.st)
  /\ posts = <<TokenRequest(obs.code, att.verifier, att.redirect)>>
  /\ result.tokens # <<>>
  /\ out.text = "Authenticated as"
  /\ LoadTokens(file) = result

\* ------------------------------------------ properties of the redirect target

\* The value of a parameter of the attempt's authorization URL.
URLParam(key) ==
  { att.authURL.query[i][2] : i \in { j \in 1..Len(att.authURL.query) : att.authURL.query[j][1] = key } }

\* C29: every form an attempt posts to the token endpoint names as
\* redirect_uri the one redirect target of that attempt's authorization URL:
\* the registered page in the paste and polling logins and in Refresh, the
\* listener's loopback address in the bridge login.
C29_RedirectMatches ==
  \A i \in 1..Len(posts) : URLParam("redirect_uri") = { Str(posts[i].redirect_uri) }

\* A bridge login posted its code with the loopback redirect target of its
\* authorization URL.
C29_Witness ==
  /\ att.variant = "server"
  /\ Len(posts) = 1
  /\ posts[1].redirect_uri = localRedirectURI
  /\ URLParam("redirect_uri") = { Str(localRedirectURI) }

\* Refresh posted its code with the registered redirect target.
C29_WitnessRefresh ==
  /\ att.variant = "refresh"
  /\ Len(posts) = 1
  /\ posts[1].redirect_uri = realRedirectURI
  /\ URLParam("redirect_uri") = { Str(realRedirectURI) }

\* ------------------------------------------- properties of the URL builder

\* The redirect targets buildAuthURL is called with.
Redirects == {realRedirectURI, localRedirectURI}

\* The url.Values of buildAuthURL for these inputs.
AuthValues(r, s, c) ==
  [client_id |-> Str(clientID), redirect_uri |-> Str(r), response_type |-> Str("code"),
   response_mode |-> Str("fragment"), scope |-> Str(scopes), state |-> Str(s),
   code_challenge |-> c, code_challenge_method |-> Str("S256")]

\* The value of a parameter in an encoded query.
QueryParam(q, key) == { q[i][2] : i \in { j \in 1..Len(q) : q[j][1] = key } }

\* For every input, the URL is the same whatever order the map yields its
\* keys in, and response_mode and code_challenge_method have their one value.
BuildIsDeterministic ==
  \A r \in Redirects, s \in StateDraws, v \in Verifiers :
    LET u == buildAuthURL(r, s, S256(v))
    IN  /\ \A iter \in MapOrders : Encode(AuthValues(r, s, S256(v)), iter) = u.query
        /\ QueryParam(u.query, "response_mode") = { Str("fragment") }
        /\ QueryParam(u.query, "code_challenge_method") = { Str("S256") }
        /\ QueryParam(u.query, "state") = { Str(s) }
        /\ QueryParam(u.query, "redirect_uri") = { Str(r) }
        /\ QueryParam(u.query, "code_challenge") = { S256(v) }

\* C30: buildAuthURL returns the same URL for the same redirect target, state
\* and challenge, whatever order the map of parameters is walked in; and the
\* authorization URL of every attempt is the one buildAuthURL returns for the
\* attempt's redirect target, state and challenge (with prompt=none appended
\* in a refresh), with response_mode fragment and code_challenge_method S256.
C30_BuildAuthURLDeterministic ==
  /\ BuildIsDeterministic
  /\ att.authURL.query # <<>> =>
       /\ SubSeq(att.authURL.query, 1, Len(ByteOrder))
            = buildAuthURL(att.redirect, att.st, S256(att.verifier)).query
       /\ URLParam("response_mode") = { Str("fragment") }
       /\ URLParam("code_challenge_method") = { Str("S256") }

\* A bridge login built its authorization URL with the state the failing
\* random source left and the loopback redirect target.
C30_Witness ==
  /\ att.variant = "server"
  /\ att.st = ZeroState
  /\ Len(att.authURL.query) = Len(ByteOrder)
  /\ att.authURL.query[1] = <<"client_id", Str(clientID)>>
  /\ att.authURL.query[Len(ByteOrder)] = <<"state", Str(ZeroState)>>
  /\ URLParam("redirect_uri") = { Str(localRedirectURI) }

\* ------------------------------------------------ properties of the PKCE pair

\* The characters a URL carries unescaped: letters, digits, "-", ".", "_", "~".
URLSafeChars == { AlphaNum[i] : i \in 1..Len(AlphaNum) } \cup {"-", ".", "_", "~"}

\* Every character of the string is one of them.
URLSafeString(str) == \A i \in 1..Len(str) : SubSeq(str, i, i) \in URLSafeChars

\* For every buffer rand.Read may fill, generatePKCE returns a verifier of
\* URL-safe characters, as long as the unpadded encoding of the buffer, and
\* the challenge is the hash of that verifier.
PKCEPairsWellFormed ==
  \A buf \in AllBuffers :
    LET g == generatePKCE(TRUE, buf)
    IN  /\ ~IsErr(g.err)
        /\ Len(g.verifier) = (Len(buf) * 8 + 5) \div 6
        /\ URLSafeString(g.verifier)
        /\ g.challenge = S256(g.verifier)

\* C31: every PKCE pair generatePKCE returns has the challenge
\* base64url(SHA256(verifier)) and a verifier of URL-safe characters only; so
\* has every attempt: its verifier is URL-safe and its authorization URL
\* carries the challenge of that verifier.
C31_PKCEPairWellFormed ==
  /\ PKCEPairsWellFormed
  /\ att.verifier # "" =>
       /\ att.verifier \in Verifiers
       /\ URLSafeString(att.verifier)
       /\ att.authURL.query # <<>> => URLParam("code_challenge") = { S256(att.verifier) }

\* A login drew the buffer with all bits set: its verifier is made of the
\* last character of the alphabet, and its URL carries that verifier's hash.
C31_Witness ==
  /\ att.variant = "paste"
  /\ pc # "idle"
  /\ att.verifier = generatePKCE(TRUE, [i \in 1..VerifierBytes |-> 255]).verifier
  /\ SubSeq(att.verifier, 1, 4) = "____"
  /\ URLParam("code_challenge") = { S256(att.verifier) }

\* ------------------------------------------ properties of the claims parser

\* The errors ParseJWT returns.
DecodingErrors == {"invalid JWT: expected 3 parts", "invalid JWT payload", "invalid JWT claims"}

\* The token has exactly three dot-separated segments, and the middle one is
\* unpadded base64url text (its characters of the alphabet, its length not one
\* more than a multiple of four) of a JSON object of the claims.
WellFormedJWT(token) ==
  LET parts == Split(token, ".")
  IN  /\ Len(parts) = 3
      /\ Len(parts[2]) = 1
      /\ parts[2][1] \in PayloadAtoms
      /\ B64Alphabet(parts[2][1])
      /\ B64LenMod4(parts[2][1]) # 1
      /\ JSONClaims(parts[2][1]).ok

\* Every token that is not well formed fails in ParseJWT with a decoding
\* error, has no token set from TokenSetFromJWT, and none from exchangeCode
\* whatever answer of the token endpoint carries it.
MalformedRejected ==
  /\ \A token \in ArgJWTs :
       ~WellFormedJWT(token) =>
         /\ ParseJWT(token).err.kind \in DecodingErrors
         /\ ParseJWT(token).claims = <<>>
         /\ TokenSetFromJWT(token).tokens = <<>>
         /\ TokenSetFromJWT(token).err = ParseJWT(token).err
  /\ \A resp \in TokenResponses :
       ~WellFormedJWT(resp.body.access_token) =>
         /\ exchangeCode(resp).tokens = <<>>
         /\ IsErr(exchangeCode(resp).err)

\* C32: a token that does not have exactly three dot-separated segments, or
\* whose middle segment is not valid base64 of JSON claims, fails in ParseJWT
\* with a decoding error and gives no token set in TokenSetFromJWT and
\* exchangeCode; so every token set a command holds has a well-formed access
\* token, and a command that ended with a decoding error holds none.
C32_MalformedJWTRejected ==
  /\ MalformedRejected
  /\ result.tokens # <<>> => WellFormedJWT(result.tokens[1].AccessToken)
  /\ (pc = "done" /\ result.err.kind \in DecodingErrors) => result.tokens = <<>>

\* The token command was given a token of four segments and returned the
\* decoding error, no token set.
C32_Witness ==
  /\ pc = "done"
  /\ att.variant = "token"
  /\ result.err.kind = "invalid JWT: expected 3 parts"
  /\ result.tokens = <<>>

\* A login's exchange was answered 200 with a token whose middle segment is
\* not base64, and returned the decoding error.
C32_WitnessPayload ==
  /\ pc = "done"
  /\ att.variant = "paste"
  /\ exch.resp.status = StatusOK
  /\ result.err.kind = "invalid JWT payload"
  /\ result.tokens = <<>>

\* ------------------------------------------- properties of the bounded wait

\* A callback has arrived: a request at the bridge's listener, or a tab URL
\* or pasted text that carries a code or an error.
Arrived == served > 0 \/ (obs.seen /\ (obs.code # <<>> \/ obs.error # <<>>))

\* The login returned a timeout failure.
TimedOut ==
  /\ pc = "done"
  /\ result.err.kind \in {"login timed out", "timed out waiting for authentication"}

\* C33: a bridge login or a polling login that waits and to which no callback
\* ever arrives eventually returns a timeout failure.
C33_WaitBounded == (pc \in {"srv_wait", "poll"}) ~> (Arrived \/ TimedOut)

\* What holds of the two acquirers: the bridge login without a callback
\* returns the timeout failure, and the polling loop ends; when it ends
\* without a code, Login holds no result and prompts for a paste.
C33_AcquirerWaitBounded ==
  /\ (pc = "srv_wait") ~> (Arrived \/ TimedOut)
  /\ (pc = "poll") ~> (pc # "poll")
  /\ [][(pc = "poll" /\ pc' # "poll") =>
          \/ pc' = "exchange" /\ pendingCode' # <<>>
          \/ pc' = "paste_wait" /\ att'.acquirer = "paste" /\ result' = NoResult]_vars

\* The bridge login timed out with no request at its listener.
C33_BridgeWitness ==
  /\ att.variant = "server"
  /\ served = 0
  /\ TimedOut

\* The polling loop's deadline passed without a callback: the login holds no
\* result and waits at the prompt, the browser opened a second time.
C33_PollAtPrompt ==
  /\ att.variant = "poll"
  /\ att.acquirer = "paste"
  /\ pc = "paste_wait"
  /\ ~Arrived
  /\ result = NoResult
  /\ browser = 2

\* --------------------------------- properties of the two ways to read a fragment

\* The parameters of the fragments compared: those of the runs, a code that is
\* an invalid escape, and values with a space written "+" and "%20".
FragmentPieces ==
  Pieces \cup { <<"code", "=", BadEscapeAtom>>, <<"code", "=", PlusAtom>>,
                <<"state", "=", EscapedSpaceAtom>> }

Fragments == { JoinAmp(ps) : ps \in UNION { [1..n -> FragmentPieces] : n \in 0..MaxParams } }

\* The bridge's way: the page's script, then the /exchange handler.
BridgePath(fragment) == callbackHandler(callbackHTML(fragment))

\* The same (code, state) pair, or a failure in both.
SameOutcome(p, b) ==
  \/ IsErr(p.err) /\ IsErr(b.err)
  \/ ~IsErr(p.err) /\ ~IsErr(b.err) /\ p.code = b.code /\ p.state = b.state

\* The fragment has a piece url.ParseQuery cannot unescape.
HasInvalidEscape(fragment) == \E i \in 1..Len(fragment) : fragment[i] = BadEscapeAtom

\* The fragments on which the two ways differ.
Disagreeing == { f \in Fragments : ~SameOutcome(extractFragmentParams(f), BridgePath(f)) }

\* The two ways agree on every fragment.
PathsAgree == Disagreeing = {}

\* The paste login failed on a text whose first code comes with no error
\* parameter: a text on which the page's script fetches /exchange with a code.
PasteFailedOnCode ==
  /\ att.variant = "paste"
  /\ att.acquirer = "paste"
  /\ pc = "done"
  /\ obs.seen
  /\ obs.code # <<>>
  /\ obs.error = <<>>
  /\ posts = <<>>
  /\ result.err.kind # "state mismatch: possible CSRF attack"

\* C34: for every fragment, extractFragmentParams on the pasted text and the
\* bridge's way (the callback page's script, then the /exchange handler) give
\* the same (code, state) pair, or both fail; so no paste login fails in
\* extractFragmentParams on a text that carries a code and no error.
C34_PasteAndBridgeAgree == PathsAgree /\ ~PasteFailedOnCode

\* The two ways differ on no fragment that url.ParseQuery can unescape, and
\* on each fragment where they differ the paste fails with "invalid URL
\* fragment" while the bridge's way gives a code.
DisagreeOnlyOnInvalidEscape ==
  \A f \in Disagreeing :
    /\ HasInvalidEscape(f)
    /\ extractFragmentParams(f).err.kind = "invalid URL fragment"
    /\ ~IsErr(BridgePath(f).err)

\* What holds: the two ways differ on invalid escapes only, and a paste login
\* that fails on a text with a code and no error fails with "invalid URL
\* fragment".
C34_AgreeWhenFragmentParses ==
  /\ DisagreeOnlyOnInvalidEscape
  /\ PasteFailedOnCode => result.err.kind = "invalid URL fragment"

\* The fragment code=c1&state=s1&%zz=x: the paste fails, the bridge's way
\* gives (c1, s1).
DisagreeOnInvalidEscape ==
  LET f == <<"code", "=", "c1", "&", "state", "=", "s1", "&", BadEscapeAtom, "=", "x">>
  IN  /\ f \in Fragments
      /\ IsErr(extractFragmentParams(f).err)
      /\ BridgePath(f) = [code |-> <<"c1">>, state |-> <<"s1">>, err |-> NoErr]

\* A paste login was given such a fragment, with the attempt's own state, and
\* failed with "invalid URL fragment" without a request to the token endpoint.
C34_PasteRejects ==
  /\ DisagreeOnInvalidEscape
  /\ att.variant = "paste"
  /\ pc = "done"
  /\ result.err.kind = "invalid URL fragment"
  /\ obs.code = <<"c1">>
  /\ obs.state = Str(att.st)
  /\ obs.error = <<>>
  /\ posts = <<>>

\* --------------------------------------- properties of failed operations

\* The commands that write the store when they succeed, and the refresh
\* command.
WritingCommands == {"paste", "poll", "server", "token", "refresh_cmd"}

\* This step ends such a command with a failure of its library call: no
\* input, a provider error, a state mismatch, a failed exchange, claims that
\* do not decode, an invalid JWT, or the refresh command's error.
FailsHere ==
  /\ pc # "done"
  /\ pc' = "done"
  /\ att'.variant \in WritingCommands
  /\ IsErr(result'.err)

\* This step ends a login or token command with a token set.
SucceedsHere ==
  /\ pc # "done"
  /\ pc' = "done"
  /\ att'.variant \in WritingCommands
  /\ ~IsErr(result'.err)
  /\ result'.tokens # <<>>

\* C35: a step that ends the login command, the token command or the refresh
\* command with a failure leaves the token file as it was, and so does every
\* earlier step of the command: the file changes only in the step that ends a
\* login or token command with a token set.
C35_FailureLeavesStore ==
  [][/\ FailsHere => file' = file
     /\ file' # file => SucceedsHere]_vars

\* A login failed (the exchange was refused) and the store still holds
\* the token set an earlier command stored.
C35_Witness ==
  /\ att.variant \in {"paste", "server"}
  /\ pc = "done"
  /\ Len(posts) = 1
  /\ IsErr(result.err)
  /\ LoadTokens(file).tokens # <<>>
  /\ out = NoOutput

\* The token command was given an invalid JWT and the store still holds the
\* token set an earlier command stored.
C35_WitnessToken ==
  /\ att.variant = "token"
  /\ pc = "done"
  /\ result.err.kind \in DecodingErrors
  /\ LoadTokens(file).tokens # <<>>

\* The refresh command failed and the store still holds a token set.
C35_WitnessRefresh ==
  /\ att.variant = "refresh_cmd"
  /\ pc = "done"
  /\ IsErr(RunErr)
  /\ LoadTokens(file).tokens # <<>>

\* ----------------------------------- properties of the /exchange handlers

\* A handler is blocked in its send, the channel is full, and the main path
\* is past its one receive: nothing will make room.
Stuck ==
  /\ handlers # <<>>
  /\ codeChan # <<>>
  /\ pc \in {"exchange", "done"}

\* C36: every /exchange handler completes: a handler blocked in its send on
\* the handoff channel eventually gets its result into the channel, while the
\* process lives.
C36_HandlersComplete == (handlers # <<>>) ~> (handlers = <<>> /\ pc # "idle")

\* What holds: the handler of the first request never blocks, a handler
\* blocks only behind a full channel or until the runtime lets its send
\* through, and a send with room in the channel goes through unless the
\* process exits first.
C36_FirstHandlerCompletes ==
  /\ [](handlers # <<>> => served > 1)
  /\ [][Len(handlers') > Len(handlers) => codeChan # <<>>]_vars
  /\ (handlers # <<>> /\ codeChan = <<>>) ~> (codeChan # <<>> \/ pc = "idle")

\* The wait timed out with a result in the channel and a second handler
\* blocked behind it; Shutdown gave up at its deadline and the login returned.
C36_HandlerStuck ==
  /\ Stuck
  /\ att.variant = "server"
  /\ pc = "done"
  /\ shutdown = "deadline"
  /\ served = MaxRequests

\* --------------------------------- properties of the exchanged access token

\* The text has exactly three dot-separated segments.
ThreeSegments(token) == Len(Split(token, ".")) = 3

\* For every answer of the token endpoint: a 200 answer whose body has no
\* access_token, or one that is not of three segments, gives an error and no
\* token set; and a token set that is returned carries the answer's access
\* token, which is not empty and has three segments.
ExchangeRejectsMalformed ==
  \A resp \in TokenResponses :
    LET x == exchangeCode(resp)
    IN  /\ (resp.kind = "http" /\ resp.status = StatusOK
              /\ (resp.body.access_token = <<>> \/ ~ThreeSegments(resp.body.access_token)))
             => (x.tokens = <<>> /\ IsErr(x.err))
        /\ x.tokens # <<>> =>
             /\ ~IsErr(x.err)
             /\ x.tokens[1].AccessToken = resp.body.access_token
             /\ x.tokens[1].AccessToken # <<>>
             /\ ThreeSegments(x.tokens[1].AccessToken)
        /\ (x.tokens = <<>>) = IsErr(x.err)

\* C37: exchangeCode returns no token set with an empty or malformed access
\* token: a 200 answer with no access_token, or with one that is not a
\* three-segment JWT, gives an error and no token set; and the token set of
\* every login and refresh that exchanged a code has an access token of three
\* segments.
C37_NoMalformedAccessToken ==
  /\ ExchangeRejectsMalformed
  /\ (exch.resp.kind # "none" /\ exch.ret.tokens # <<>>) =>
       /\ exch.ret.tokens[1].AccessToken # <<>>
       /\ ThreeSegments(exch.ret.tokens[1].AccessToken)
  /\ (result.tokens # <<>> /\ att.variant # "token") =>
       /\ exch.resp.kind = "http"
       /\ result = exch.ret

\* An exchange was answered 200 with a JSON body whose access token is absent
\* or not of three segments: the login returned the error and no token set,
\* and the store is empty.
C37_Witness ==
  /\ att.variant = "paste"
  /\ pc = "done"
  /\ exch.resp.kind = "http"
  /\ exch.resp.status = StatusOK
  /\ exch.resp.json
  /\ exch.ret.err.kind = "invalid JWT: expected 3 parts"
  /\ result.tokens = <<>>
  /\ file = <<>>

\* ------------------------------------------- properties of ExitCode's laws

\* The errors ExitCode is followed through: nil, a plain error, an error of
\* the network, an error that may or may not be one.
SampleErrs ==
  { NoErr,
    Err("state mismatch", <<>>, <<>>, 0),
    Err("token exchange failed: %w", <<>>, <<>>, 0),
    Err("reading token response", <<>>, <<>>, 0) }

\* The codes given to WrapExit.
SampleCodes == {-1, 0, 1, 2, 3, 4}

\* ExitCode is 0 for nil and for nothing else; WrapExit of nil is nil; a code
\* other than 0 given to WrapExit is the exit code, an error of the network
\* wrapped or not; with the code 0 the exit code is that of the wrapped error,
\* 3 or 1.
ExitCodeLaws ==
  \A err \in SampleErrs :
    /\ \A netErr \in isNetErr(err) :
         /\ (ExitCode(err, netErr) = 0) = ~IsErr(err)
         /\ IsErr(err) => ExitCode(err, netErr) = (IF netErr THEN 3 ELSE 1)
    /\ \A exitCode \in SampleCodes :
         LET e == WrapExit(exitCode, err)
         IN  /\ IsErr(e) = IsErr(err)
             /\ ~IsErr(err) => e = NoErr
             /\ isNetErr(e) = isNetErr(err)
             /\ \A netErr \in isNetErr(e) :
                  /\ (ExitCode(e, netErr) = 0) = ~IsErr(err)
                  /\ (IsErr(err) /\ exitCode # 0) => ExitCode(e, netErr) = exitCode
                  /\ (IsErr(err) /\ exitCode = 0) => ExitCode(e, netErr) = (IF netErr THEN 3 ELSE 1)

\* C38: ExitCode returns 0 exactly for the nil error; a code other than 0
\* given to WrapExit is returned as it is, before the error is looked at for
\* a network error; WrapExit of nil is nil for every code; an ExitError with
\* code 0 around an error does not give 0.  So a command exits with 0 exactly
\* when it returned no error, and the refresh command with the 1 it wrapped.
C38_ExitCodeLaws ==
  /\ ExitCodeLaws
  /\ (pc = "done" /\ att.variant \in Commands) =>
       /\ (0 \in run) = ~IsErr(RunErr)
       /\ ~IsErr(RunErr) => run = {0}
       /\ RunErr.kind = "ExitError" => run = {RunErr.n}

\* The refresh command returned WrapExit(1, ...) and the process exits with 1.
C38_Witness ==
  /\ pc = "done"
  /\ att.variant = "refresh_cmd"
  /\ RunErr.kind = "ExitError"
  /\ RunErr.n = 1
  /\ run = {1}

\* ------------------------------------------- properties of expiry over time

\* Instants with and without a fraction of a second.
Instants == { TimeUnix(s, n) : s \in 0..MaxClock, n \in {0, 1} }

\* For every expiry and every two instants, the later one second: expired
\* implies in need of a refresh, and what is true at the first instant is true
\* at the later one.
ExpiryLaws ==
  \A e \in Instants, c \in Instants :
    LET t == [ExpiresAt |-> e]
        later == TimeUnix(c.sec + 1, 0)
    IN  /\ IsExpired(t, c) => NeedsRefresh(t, c)
        /\ IsExpired(t, c) => IsExpired(t, later)
        /\ NeedsRefresh(t, c) => NeedsRefresh(t, later)
        /\ \A d \in Instants :
             (After(d, c) /\ IsExpired(t, c)) => (IsExpired(t, d) /\ NeedsRefresh(t, d))

\* C39: for every token set at hand and every clock value, IsExpired implies
\* NeedsRefresh; and over every step that leaves the token set at hand, what
\* IsExpired and NeedsRefresh said of it before the step they say after it.
C39_ExpiryMonotone ==
  /\ [](/\ \A t \in Held : IsExpired(t, Clock) => NeedsRefresh(t, Clock)
        /\ ExpiryLaws)
  /\ [][\A t \in Held :
          t \in Held' =>
            /\ IsExpired(t, Clock) => IsExpired(t, Clock')
            /\ NeedsRefresh(t, Clock) => NeedsRefresh(t, Clock')]_vars

\* The stored token set with expiry 33 is expired at second 34, after the
\* clock went past second 3, where it began to need a refresh.
C39_Witness ==
  /\ now = 34
  /\ \E t \in Held :
       /\ t.ExpiresAt = TimeUnix(33, 0)
       /\ IsExpired(t, Clock)
       /\ NeedsRefresh(t, Clock)
       /\ ~IsExpired(t, TimeUnix(33, 0))
       /\ NeedsRefresh(t, TimeUnix(4, 0))
       /\ ~NeedsRefresh(t, TimeUnix(3, 0))

\* ------------------------------------------- properties of what is printed

\* The texts of the access tokens and the ID token a run may meet.
Secrets ==
  { Text(j) : j \in { k \in JWTs \cup TwinJWTs : Len(k) >= 5 } } \cup {"id1"}

\* The lines on stderr that carry the text of a token.
Leaks == { i \in 1..Len(Stderr) : \E s \in Secrets : TextContains(Stderr[i], s) }

\* A 200 or a 400 answer with this access token and this ID token.
Answer(status, access, id) ==
  [kind |-> "http", status |-> status,
   body |-> [json |-> TRUE, raw |-> BodyText(<<>>, <<>>, access, id, 300), error |-> <<>>,
             error_description |-> <<>>, access_token |-> access, id_token |-> id,
             expires_in |-> 300]]

\* What a login prints on this answer: the lines of exchangeCode and Login,
\* the error's line, the payload.
Printed(resp, acquirer) ==
  LET x == exchangeCode(resp)
  IN  [log |-> Log(resp, x.err, acquirer),
       err |-> IF IsErr(x.err) THEN Errorf(x.err) ELSE "",
       payload |-> IF IsErr(x.err) THEN NoOutput
                   ELSE Emit("Authenticated as", TRUE, FALSE, [x.tokens[1] EXCEPT !.Sub = ""])]

\* Two logins whose answers differ in the token strings only, the claims the
\* same, print the same, under each of these statuses.
TwinsPrintTheSame(statuses) ==
  \A c \in statuses, j1 \in TwinJWTs, j2 \in TwinJWTs, i1 \in {"id1", "id2"},
     i2 \in {"id1", "id2"}, q \in {"paste", "poll"} :
    Printed(Answer(c, j1, i1), q) = Printed(Answer(c, j2, i2), q)

TwinsPrintTheSameAlways == TwinsPrintTheSame({StatusOK, 400})
TwinsPrintTheSameOnOK == TwinsPrintTheSame({StatusOK})

\* C40: no line on stderr and no field of the payload carries the text of an
\* access token or of an ID token, and two logins whose answers differ in the
\* token strings only print the same, whatever the answer a login has read.
C40_TokensNeverPrinted ==
  /\ Leaks = {}
  /\ \A s \in Secrets : s \notin {out.text, out.username, out.kundenkontoid, out.sub}
  /\ exch.resp.kind = "http" => TwinsPrintTheSameAlways

\* What holds: the payload carries no token, a line that carries one is the
\* text of the error for an answer with another status than 200 and no error
\* member, and under status 200 two such logins print the same.
C40_PrintedOnlyWithOtherStatus ==
  /\ \A i \in Leaks : TextContains(Stderr[i], "token exchange failed with status 400: {")
  /\ \A s \in Secrets : s \notin {out.text, out.username, out.kundenkontoid, out.sub}
  /\ TwinsPrintTheSameOnOK

\* A paste login whose POST was answered with status 400 and a body without an
\* error member: the line run writes for its error has the access token and the
\* ID token of the body.
C40_TokenOnStderr ==
  /\ pc = "done"
  /\ att.variant = "paste"
  /\ exch.resp.status = 400
  /\ result.err.kind = "token exchange failed with status %d: %s"
  /\ Len(Stderr) = 1
  /\ TextContains(Stderr[1], "access_token:h.pA.sig2,id_token:id1")

\* A polling login fell back to the prompt with such an error: the status
\* message of Login has the tokens.
C40_TokenInStatusMessage ==
  /\ att.variant = "poll"
  /\ pc = "paste_wait"
  /\ Len(Stderr) = 1
  /\ TextContains(Stderr[1], "Auto-detect failed (token exchange failed with status 400")
  /\ TextContains(Stderr[1], "access_token:h.pA.sig,id_token:id1")

====
